---- MODULE Spec2Model ----
(***************************************************************************)
(* A model of the unit-expression pipeline of gurre/si: tokenizer, parser, *)
(* symbol-resolution context, evaluator.                                   *)
(*                                                                         *)
(* Strings are sequences of runes; a rune is written as a TLA+ string.     *)
(* Runes outside ASCII carry a name: "middot" is U+00B7, "micro" is        *)
(* U+00B5, "mu" is U+03BC, "deg" is U+00B0, "ohm" is U+03A9, "Icirc" is    *)
(* U+00CE, "quarter" is U+00BC, "quote" is the double quote.               *)
(*                                                                         *)
(* A float64 scalar is modelled exactly, without rounding, as the number   *)
(* (n/d) * 2^e2 * 5^e5 with n, d coprime and coprime to 10, or as one of   *)
(* the IEEE specials zero, inf, nan.                                       *)
(***************************************************************************)
EXTENDS Integers, Sequences, FiniteSets, TLC

VARIABLES ctx, op, symbol, resolved, node, evaluated, input, tokens, lexErr,
          position, parsed,
          toSIUnit, fromSIUnit, unit, target, options, result,
          number, power, stack, goroutines, returned

\* the package variables of conversion.go
globals == <<toSIUnit, fromSIUnit>>

\* arguments and result of a call of the public API
frame == <<unit, target, options, result>>

\* a float64 argument or intermediate, an int argument, the frames of a
\* recursion, the goroutines inside Resolve, the token a tokenizer returned
extra == <<number, power, stack, goroutines, returned>>

vars == <<ctx, op, symbol, resolved, node, evaluated, input, tokens, lexErr,
          position, parsed, toSIUnit, fromSIUnit, unit, target, options,
          result, number, power, stack, goroutines, returned>>

----
(* Bounds of the model. *)

\* how many rotations of the registration order feed the prefix sort
MaxRot == 2
\* longest input string over the full rune alphabet
MaxLen == 3
\* longest input string over the one-rune-per-token alphabet
MaxTokLen == 4
\* largest numerator or denominator of a scalar the model carries exactly
\* (float64 carries 2^53; beyond the limit the model only records that the
\* value is rounded)
MaxExact == 1073741824
\* longest string Parse and MustParse are called with
MaxParseLen == 4
\* how many goroutines are inside Resolve at once
MaxGoroutines == 2
\* the bits of the machine integer int in the model (Go's int has 64)
IntBits == 6

----
(* Scalars. *)

RECURSIVE GCD(_, _)
GCD(a, b) == IF b = 0 THEN a ELSE GCD(b, a % b)

RECURSIVE Count(_, _)
Count(n, p) == IF n % p = 0 THEN 1 + Count(n \div p, p) ELSE 0

RECURSIVE Strip(_, _)
Strip(n, p) == IF n % p = 0 THEN Strip(n \div p, p) ELSE n

Special(kind) == [k |-> kind, n |-> 0, d |-> 1, e2 |-> 0, e5 |-> 0]

\* the finite positive scalar (n/d) * 2^e2 * 5^e5 in normal form; "rounded"
\* is a finite non-zero scalar too wide to be carried exactly
Fin(n, d, e2, e5) ==
    LET n1 == Strip(Strip(n, 2), 5)
        d1 == Strip(Strip(d, 2), 5)
        g  == GCD(n1, d1)
    IN  IF n1 \div g > MaxExact \/ d1 \div g > MaxExact THEN Special("rounded")
        ELSE [k |-> "fin", n |-> n1 \div g, d |-> d1 \div g,
              e2 |-> e2 + Count(n, 2) - Count(d, 2),
              e5 |-> e5 + Count(n, 5) - Count(d, 5)]

\* 10^e
Ten(e) == Fin(1, 1, e, e)
\* 2^e
Two(e) == Fin(1, 1, e, 0)
\* a non-negative integer
Whole(n) == IF n = 0 THEN Special("zero") ELSE Fin(n, 1, 0, 0)

\* the product a * b stays within the exact range
Fits(a, b) == a <= MaxExact \div b

\* float64 multiplication
FMul(a, b) ==
    CASE a.k = "nan" \/ b.k = "nan" -> Special("nan")
      [] a.k = "zero" /\ b.k = "inf" -> Special("nan")
      [] a.k = "inf" /\ b.k = "zero" -> Special("nan")
      [] a.k = "zero" \/ b.k = "zero" -> Special("zero")
      [] a.k = "inf" \/ b.k = "inf" -> Special("inf")
      [] a.k = "rounded" \/ b.k = "rounded" -> Special("rounded")
      [] ~(Fits(a.n, b.n) /\ Fits(a.d, b.d)) -> Special("rounded")
      [] OTHER -> Fin(a.n * b.n, a.d * b.d, a.e2 + b.e2, a.e5 + b.e5)

\* float64 division
FDiv(a, b) ==
    CASE a.k = "nan" \/ b.k = "nan" -> Special("nan")
      [] a.k = "zero" /\ b.k = "zero" -> Special("nan")
      [] a.k = "inf" /\ b.k = "inf" -> Special("nan")
      [] a.k = "zero" -> Special("zero")
      [] b.k = "inf" -> Special("zero")
      [] a.k = "inf" \/ b.k = "zero" -> Special("inf")
      [] a.k = "rounded" \/ b.k = "rounded" -> Special("rounded")
      [] ~(Fits(a.n, b.d) /\ Fits(a.d, b.n)) -> Special("rounded")
      [] OTHER -> Fin(a.n * b.d, a.d * b.n, a.e2 - b.e2, a.e5 - b.e5)

----
(* Units and the dimension algebra. *)

NDims == 7

Dim(l, m, t, i, th, n, j) == <<l, m, t, i, th, n, j>>

Dimensionless == Dim(0, 0, 0, 0, 0, 0, 0)

Unit(v, dim) == [Value |-> v, Dimension |-> dim]

\* the zero value Unit{}
ZeroUnit == Unit(Special("zero"), Dimensionless)

Scalar(value) == Unit(value, Dimensionless)

\* Mul with the dimensions subtracted instead of added
MulSubtracting(u, v) ==
    Unit(FMul(u.Value, v.Value),
         [i \in 1..NDims |-> u.Dimension[i] - v.Dimension[i]])

Mul(u, v) ==
    Unit(FMul(u.Value, v.Value),
         [i \in 1..NDims |-> u.Dimension[i] + v.Dimension[i]])

Div(u, v) ==
    Unit(FDiv(u.Value, v.Value),
         [i \in 1..NDims |-> u.Dimension[i] - v.Dimension[i]])

RECURSIVE pow(_, _)
pow(x, n) ==
    IF n = 0 THEN Whole(1)
    ELSE IF n < 0 THEN FDiv(Whole(1), pow(x, -n))
    ELSE IF n % 2 = 0 THEN LET half == pow(x, n \div 2) IN FMul(half, half)
    ELSE FMul(x, pow(x, n - 1))

Pow(u, exp) ==
    Unit(pow(u.Value, exp), [i \in 1..NDims |-> u.Dimension[i] * exp])

\* The machine integer: two's complement of IntBits bits.
RECURSIVE Exp2(_)
Exp2(n) == IF n = 0 THEN 1 ELSE 2 * Exp2(n - 1)

MinInt == -Exp2(IntBits - 1)
MaxInt == Exp2(IntBits - 1) - 1

\* the int an arithmetic result wraps around to
Wrap(n) == ((n - MinInt) % Exp2(IntBits)) + MinInt

\* the frames of pow the stack of a goroutine holds before the runtime ends
\* the program with a stack overflow; no terminating call comes near it
StackLimit == 4 * IntBits

\* the argument of the call of pow that the call with argument n makes
powInner(n) ==
    IF n < 0 THEN Wrap(-n)
    ELSE IF n % 2 = 0 THEN n \div 2
    ELSE n - 1

\* what the call of pow with argument n makes of the result of its inner call
powOuter(x, n, inner) ==
    IF n < 0 THEN FDiv(Whole(1), inner)
    ELSE IF n % 2 = 0 THEN FMul(inner, inner)
    ELSE FMul(x, inner)

----
(* The standard context. *)

registerBaseUnits ==
    (<<"m">> :> Unit(Whole(1), Dim(1, 0, 0, 0, 0, 0, 0))) @@
    (<<"k", "g">> :> Unit(Whole(1), Dim(0, 1, 0, 0, 0, 0, 0))) @@
    (<<"s">> :> Unit(Whole(1), Dim(0, 0, 1, 0, 0, 0, 0))) @@
    (<<"A">> :> Unit(Whole(1), Dim(0, 0, 0, 1, 0, 0, 0))) @@
    (<<"K">> :> Unit(Whole(1), Dim(0, 0, 0, 0, 1, 0, 0))) @@
    (<<"m", "o", "l">> :> Unit(Whole(1), Dim(0, 0, 0, 0, 0, 1, 0))) @@
    (<<"c", "d">> :> Unit(Whole(1), Dim(0, 0, 0, 0, 0, 0, 1)))

registerDerivedUnits(baseUnits) ==
    LET newton == Div(Mul(baseUnits[<<"k", "g">>], baseUnits[<<"m">>]),
                      Pow(baseUnits[<<"s">>], 2))
        joule == Mul(newton, baseUnits[<<"m">>])
        watt == Div(joule, baseUnits[<<"s">>])
        pascal == Div(newton, Pow(baseUnits[<<"m">>], 2))
        hertz == Unit(Whole(1), Dim(0, 0, -1, 0, 0, 0, 0))
        coulomb == Mul(baseUnits[<<"A">>], baseUnits[<<"s">>])
        volt == Div(watt, baseUnits[<<"A">>])
    IN  (<<"N">> :> newton) @@
        (<<"J">> :> joule) @@
        (<<"W">> :> watt) @@
        (<<"P", "a">> :> pascal) @@
        (<<"H", "z">> :> hertz) @@
        (<<"C">> :> coulomb) @@
        (<<"V">> :> volt) @@
        (<<"h">> :> Unit(Whole(3600), Dim(0, 0, 1, 0, 0, 0, 0))) @@
        (<<"m", "i", "n">> :> Unit(Whole(60), Dim(0, 0, 1, 0, 0, 0, 0))) @@
        (<<"d">> :> Unit(Whole(86400), Dim(0, 0, 1, 0, 0, 0, 0))) @@
        (<<"B">> :> Unit(Whole(1), Dimensionless)) @@
        (<<"i", "B">> :> Unit(Whole(1), Dimensionless))

\* the prefix table, in the order the code fills it
PrefixEntries ==
    << <<<<"Y">>, Ten(24)>>, <<<<"Z">>, Ten(21)>>, <<<<"E">>, Ten(18)>>,
       <<<<"P">>, Ten(15)>>, <<<<"T">>, Ten(12)>>, <<<<"G">>, Ten(9)>>,
       <<<<"M">>, Ten(6)>>, <<<<"k">>, Ten(3)>>, <<<<"h">>, Ten(2)>>,
       <<<<"d", "a">>, Ten(1)>>, <<<<>>, Whole(1)>>, <<<<"d">>, Ten(-1)>>,
       <<<<"c">>, Ten(-2)>>, <<<<"m">>, Ten(-3)>>, <<<<"u">>, Ten(-6)>>,
       <<<<"mu">>, Ten(-6)>>, <<<<"micro">>, Ten(-6)>>, <<<<"n">>, Ten(-9)>>,
       <<<<"p">>, Ten(-12)>>, <<<<"f">>, Ten(-15)>>, <<<<"a">>, Ten(-18)>>,
       <<<<"z">>, Ten(-21)>>, <<<<"y">>, Ten(-24)>>,
       <<<<"K", "i">>, Two(10)>>, <<<<"M", "i">>, Two(20)>>,
       <<<<"G", "i">>, Two(30)>>, <<<<"T", "i">>, Two(40)>>,
       <<<<"P", "i">>, Two(50)>>, <<<<"E", "i">>, Two(60)>> >>

registerPrefixes ==
    [p \in {PrefixEntries[i][1] : i \in DOMAIN PrefixEntries} |->
        LET i == CHOOSE j \in DOMAIN PrefixEntries : PrefixEntries[j][1] = p
        IN  PrefixEntries[i][2]]

----
(* Runes and strings. *)

\* the bytes the rune takes in UTF-8
Width(r) ==
    IF r \in {"middot", "micro", "mu", "deg", "ohm", "Icirc", "quarter"}
    THEN 2 ELSE 1

RECURSIVE ByteLen(_)
ByteLen(s) == IF s = <<>> THEN 0 ELSE Width(Head(s)) + ByteLen(Tail(s))

HasPrefix(s, p) == Len(p) <= Len(s) /\ SubSeq(s, 1, Len(p)) = p

HasSuffix(s, p) ==
    Len(p) <= Len(s) /\ SubSeq(s, Len(s) - Len(p) + 1, Len(s)) = p

\* s[len(p):]
After(s, p) == SubSeq(s, Len(p) + 1, Len(s))

Reverse(s) == [i \in 1..Len(s) |-> s[Len(s) + 1 - i]]

Rotate(s, r) == [i \in 1..Len(s) |-> s[((i - 1 + r) % Len(s)) + 1]]

----
(* sortPrefixes: the keys of the prefix map in the order of one map      *)
(* iteration, sorted by descending byte length. The map iteration order   *)
(* is not fixed and the sort is not stable: the model takes the           *)
(* registration order, rotated and possibly reversed, as the iteration    *)
(* order, and keeps ties in that order.                                   *)

IterationOrders ==
    LET keys == [i \in DOMAIN PrefixEntries |-> PrefixEntries[i][1]]
    IN  {Rotate(keys, r) : r \in 0..MaxRot} \cup
        {Reverse(Rotate(keys, r)) : r \in 0..MaxRot}

SelectLen(s, n) ==
    LET F[i \in 0..Len(s)] ==
            IF i = 0 THEN <<>>
            ELSE IF ByteLen(s[i]) = n THEN Append(F[i - 1], s[i]) ELSE F[i - 1]
    IN  F[Len(s)]

sortPrefixesAscending(keys) ==
    SelectLen(keys, 0) \o SelectLen(keys, 1) \o SelectLen(keys, 2)

sortPrefixes(keys) ==
    SelectLen(keys, 2) \o SelectLen(keys, 1) \o SelectLen(keys, 0)

NewStandardContext(keys) ==
    LET base == registerBaseUnits
    IN  [baseUnits |-> base,
         derivedUnits |-> registerDerivedUnits(base),
         prefixes |-> registerPrefixes,
         sortedPrefixes |-> sortPrefixes(keys)]

----
(* Resolve. *)

Ok(u) == [ok |-> TRUE, unit |-> u]
Err == [ok |-> FALSE, unit |-> ZeroUnit]

BinaryLetters == <<"K", "M", "G", "T", "P", "E">>

\* the loop over K, M, G, T, P, E inside the "iB" suffix case
RECURSIVE resolveBinary(_, _, _)
resolveBinary(c, sym, i) ==
    IF i > Len(BinaryLetters) THEN Err
    ELSE LET prefix == <<BinaryLetters[i]>>
         IN  IF HasPrefix(sym, prefix) /\ sym = prefix \o <<"i", "B">>
             THEN Ok(Unit(c.prefixes[prefix \o <<"i">>], Dimensionless))
             ELSE resolveBinary(c, sym, i + 1)

RECURSIVE resolvePrefixed(_, _, _)

\* the loop over sortedPrefixes, taking every prefix to be one rune long
resolvePrefixedOneRune(c, sym, i) ==
    IF i > Len(c.sortedPrefixes) THEN Err
    ELSE LET prefix == c.sortedPrefixes[i]
             suffix == Tail(sym)
         IN  IF prefix = <<>> THEN resolvePrefixed(c, sym, i + 1)
             ELSE IF ~HasPrefix(sym, prefix) THEN resolvePrefixed(c, sym, i + 1)
             ELSE IF suffix \in DOMAIN c.baseUnits
                  THEN Ok(Unit(FMul(c.baseUnits[suffix].Value, c.prefixes[prefix]),
                               c.baseUnits[suffix].Dimension))
             ELSE IF suffix \in DOMAIN c.derivedUnits
                  THEN Ok(Unit(FMul(c.derivedUnits[suffix].Value, c.prefixes[prefix]),
                               c.derivedUnits[suffix].Dimension))
             ELSE resolvePrefixed(c, sym, i + 1)

\* the loop over sortedPrefixes without the test that the symbol starts with
\* the prefix
resolvePrefixedUnchecked(c, sym, i) ==
    IF i > Len(c.sortedPrefixes) THEN Err
    ELSE LET prefix == c.sortedPrefixes[i]
             suffix == After(sym, prefix)
         IN  IF prefix = <<>> THEN resolvePrefixed(c, sym, i + 1)
             ELSE IF suffix \in DOMAIN c.baseUnits
                  THEN Ok(Unit(FMul(c.baseUnits[suffix].Value, c.prefixes[prefix]),
                               c.baseUnits[suffix].Dimension))
             ELSE IF suffix \in DOMAIN c.derivedUnits
                  THEN Ok(Unit(FMul(c.derivedUnits[suffix].Value, c.prefixes[prefix]),
                               c.derivedUnits[suffix].Dimension))
             ELSE resolvePrefixed(c, sym, i + 1)

\* the loop over sortedPrefixes
resolvePrefixed(c, sym, i) ==
    IF i > Len(c.sortedPrefixes) THEN Err
    ELSE LET prefix == c.sortedPrefixes[i]
             suffix == After(sym, prefix)
         IN  IF prefix = <<>> THEN resolvePrefixed(c, sym, i + 1)
             ELSE IF ~HasPrefix(sym, prefix) THEN resolvePrefixed(c, sym, i + 1)
             ELSE IF suffix \in DOMAIN c.baseUnits
                  THEN Ok(Unit(FMul(c.baseUnits[suffix].Value, c.prefixes[prefix]),
                               c.baseUnits[suffix].Dimension))
             ELSE IF suffix \in DOMAIN c.derivedUnits
                  THEN Ok(Unit(FMul(c.derivedUnits[suffix].Value, c.prefixes[prefix]),
                               c.derivedUnits[suffix].Dimension))
             ELSE resolvePrefixed(c, sym, i + 1)

\* Resolve with the prefix scan ahead of the exact match
ResolvePrefixFirst(c, sym) ==
    IF sym = <<"1">> \/ sym = <<>> THEN Ok(Unit(Whole(1), Dimensionless))
    ELSE IF sym = <<"g">> THEN Ok(Unit(Ten(-3), Dim(0, 1, 0, 0, 0, 0, 0)))
    ELSE IF resolvePrefixed(c, sym, 1).ok THEN resolvePrefixed(c, sym, 1)
    ELSE IF sym \in DOMAIN c.baseUnits THEN Ok(c.baseUnits[sym])
    ELSE IF sym \in DOMAIN c.derivedUnits THEN Ok(c.derivedUnits[sym])
    ELSE IF HasSuffix(sym, <<"i", "B">>) /\ resolveBinary(c, sym, 1).ok
         THEN resolveBinary(c, sym, 1)
    ELSE Err

\* Resolve that falls back to the longest registered unit the symbol ends with
ResolveFuzzy(c, sym) ==
    IF sym = <<"1">> \/ sym = <<>> THEN Ok(Unit(Whole(1), Dimensionless))
    ELSE IF sym = <<"g">> THEN Ok(Unit(Ten(-3), Dim(0, 1, 0, 0, 0, 0, 0)))
    ELSE IF sym \in DOMAIN c.baseUnits THEN Ok(c.baseUnits[sym])
    ELSE IF sym \in DOMAIN c.derivedUnits THEN Ok(c.derivedUnits[sym])
    ELSE IF HasSuffix(sym, <<"i", "B">>) /\ resolveBinary(c, sym, 1).ok
         THEN resolveBinary(c, sym, 1)
    ELSE IF resolvePrefixed(c, sym, 1).ok THEN resolvePrefixed(c, sym, 1)
    ELSE IF \E u \in DOMAIN c.baseUnits : HasSuffix(sym, u)
         THEN Ok(c.baseUnits[CHOOSE u \in DOMAIN c.baseUnits : HasSuffix(sym, u)])
    ELSE Err

\* Resolve over a context that has the gram in its derived-unit table
ResolveGramRegistered(c, sym) ==
    LET gram == Unit(Ten(-3), Dim(0, 1, 0, 0, 0, 0, 0))
        cg == [c EXCEPT !.derivedUnits = (<<"g">> :> gram) @@ @]
    IN  IF sym = <<"1">> \/ sym = <<>> THEN Ok(Unit(Whole(1), Dimensionless))
        ELSE IF sym = <<"g">> THEN Ok(gram)
        ELSE IF sym \in DOMAIN cg.baseUnits THEN Ok(cg.baseUnits[sym])
        ELSE IF sym \in DOMAIN cg.derivedUnits THEN Ok(cg.derivedUnits[sym])
        ELSE IF HasSuffix(sym, <<"i", "B">>) /\ resolveBinary(cg, sym, 1).ok
             THEN resolveBinary(cg, sym, 1)
        ELSE resolvePrefixed(cg, sym, 1)

Resolve(c, sym) ==
    IF sym = <<"1">> \/ sym = <<>> THEN Ok(Unit(Whole(1), Dimensionless))
    ELSE IF sym = <<"g">> THEN Ok(Unit(Ten(-3), Dim(0, 1, 0, 0, 0, 0, 0)))
    ELSE IF sym \in DOMAIN c.baseUnits THEN Ok(c.baseUnits[sym])
    ELSE IF sym \in DOMAIN c.derivedUnits THEN Ok(c.derivedUnits[sym])
    ELSE IF HasSuffix(sym, <<"i", "B">>) /\ resolveBinary(c, sym, 1).ok
         THEN resolveBinary(c, sym, 1)
    ELSE resolvePrefixed(c, sym, 1)

----
(* Resolve, one read of the context at a time. A goroutine inside        *)
(* Resolve is at one of the function's tests; each step makes the test   *)
(* and moves on. The tables are Go maps and a slice that Resolve only    *)
(* reads.                                                                *)

ResolveFrame(pc, sym, i, res) == [pc |-> pc, symbol |-> sym, i |-> i, result |-> res]

NotInResolve == ResolveFrame("idle", <<>>, 0, Err)

\* the frame after the test the goroutine is at
resolveAdvance(c, f) ==
    LET done(res) == ResolveFrame("done", f.symbol, f.i, res)
        at(pc) == ResolveFrame(pc, f.symbol, f.i, f.result)
    IN  CASE f.pc = "special" ->
               IF f.symbol = <<"1">> \/ f.symbol = <<>>
               THEN done(Ok(Unit(Whole(1), Dimensionless)))
               ELSE at("gram")
          [] f.pc = "gram" ->
               IF f.symbol = <<"g">>
               THEN done(Ok(Unit(Ten(-3), Dim(0, 1, 0, 0, 0, 0, 0))))
               ELSE at("base")
          [] f.pc = "base" ->
               IF f.symbol \in DOMAIN c.baseUnits
               THEN done(Ok(c.baseUnits[f.symbol]))
               ELSE at("derived")
          [] f.pc = "derived" ->
               IF f.symbol \in DOMAIN c.derivedUnits
               THEN done(Ok(c.derivedUnits[f.symbol]))
               ELSE at("binary")
          [] f.pc = "binary" ->
               IF HasSuffix(f.symbol, <<"i", "B">>) /\ resolveBinary(c, f.symbol, 1).ok
               THEN done(resolveBinary(c, f.symbol, 1))
               ELSE ResolveFrame("prefixes", f.symbol, 1, f.result)
          [] f.pc = "prefixes" ->
               IF f.i > Len(c.sortedPrefixes) THEN done(Err)
               ELSE LET prefix == c.sortedPrefixes[f.i]
                        suffix == After(f.symbol, prefix)
                        next == ResolveFrame("prefixes", f.symbol, f.i + 1, f.result)
                    IN  IF prefix = <<>> THEN next
                        ELSE IF ~HasPrefix(f.symbol, prefix) THEN next
                        ELSE IF suffix \in DOMAIN c.baseUnits
                             THEN done(Ok(Unit(FMul(c.baseUnits[suffix].Value,
                                                    c.prefixes[prefix]),
                                               c.baseUnits[suffix].Dimension)))
                        ELSE IF suffix \in DOMAIN c.derivedUnits
                             THEN done(Ok(Unit(FMul(c.derivedUnits[suffix].Value,
                                                    c.prefixes[prefix]),
                                               c.derivedUnits[suffix].Dimension)))
                        ELSE next

Stepped(c, f) == [ctx |-> c, frame |-> f]

\* a step of Resolve that keeps what the prefix scan found in the
\* derived-unit table
ResolveStepCaching(c, f) ==
    LET n == resolveAdvance(c, f)
    IN  IF f.pc = "prefixes" /\ n.pc = "done" /\ n.result.ok
        THEN Stepped([c EXCEPT !.derivedUnits = (f.symbol :> n.result.unit) @@ @], n)
        ELSE Stepped(c, n)

\* a step of Resolve: the context and the frame after it
ResolveStep(c, f) == Stepped(c, resolveAdvance(c, f))

----
(* The AST and its evaluation. Eval returns besides the result the       *)
(* symbols it handed to Resolve, in the order of the calls.              *)

IdentNode(sym) == [kind |-> "Ident", Symbol |-> sym]
NumberNode(v) == [kind |-> "Number", Value |-> v]
BinaryNode(o, l, r) == [kind |-> "Binary", Op |-> o, Left |-> l, Right |-> r]
PowerNode(b, e) == [kind |-> "Power", Base |-> b, Exp |-> e]
GroupNode(n) == [kind |-> "Group", Inner |-> n]

EvalOk(u, calls) == [ok |-> TRUE, unit |-> u, calls |-> calls]
EvalErr(calls) == [ok |-> FALSE, unit |-> ZeroUnit, calls |-> calls]

RECURSIVE Eval(_, _)

\* BinaryNode.Eval with the operands of the division exchanged
BinaryEvalSwapped(c, n) ==
    LET left == Eval(c, n.Left)
        right == Eval(c, n.Right)
    IN  IF ~left.ok THEN EvalErr(left.calls)
        ELSE IF ~right.ok THEN EvalErr(left.calls \o right.calls)
        ELSE IF n.Op = "Multiply"
             THEN EvalOk(Mul(left.unit, right.unit), left.calls \o right.calls)
        ELSE IF n.Op = "Divide"
             THEN EvalOk(Div(right.unit, left.unit), left.calls \o right.calls)
        ELSE EvalErr(left.calls \o right.calls)

\* BinaryNode.Eval that evaluates both sides before it looks at the errors
BinaryEvalEager(c, n) ==
    LET left == Eval(c, n.Left)
        right == Eval(c, n.Right)
    IN  IF ~left.ok THEN EvalErr(left.calls \o right.calls)
        ELSE IF ~right.ok THEN EvalErr(left.calls \o right.calls)
        ELSE IF n.Op = "Multiply"
             THEN EvalOk(Mul(left.unit, right.unit), left.calls \o right.calls)
        ELSE IF n.Op = "Divide"
             THEN EvalOk(Div(left.unit, right.unit), left.calls \o right.calls)
        ELSE EvalErr(left.calls \o right.calls)

BinaryEval(c, n) ==
    LET left == Eval(c, n.Left)
        right == Eval(c, n.Right)
    IN  IF ~left.ok THEN EvalErr(left.calls)
        ELSE IF ~right.ok THEN EvalErr(left.calls \o right.calls)
        ELSE IF n.Op = "Multiply"
             THEN EvalOk(Mul(left.unit, right.unit), left.calls \o right.calls)
        ELSE IF n.Op = "Divide"
             THEN EvalOk(Div(left.unit, right.unit), left.calls \o right.calls)
        ELSE EvalErr(left.calls \o right.calls)

PowerEval(c, n) ==
    LET base == Eval(c, n.Base)
    IN  IF ~base.ok THEN EvalErr(base.calls)
        ELSE EvalOk(Pow(base.unit, n.Exp), base.calls)

IdentEval(c, n) ==
    LET r == Resolve(c, n.Symbol)
    IN  IF r.ok THEN EvalOk(r.unit, <<n.Symbol>>) ELSE EvalErr(<<n.Symbol>>)

Eval(c, n) ==
    CASE n.kind = "Ident" -> IdentEval(c, n)
      [] n.kind = "Number" -> EvalOk(Scalar(n.Value), <<>>)
      [] n.kind = "Binary" -> BinaryEval(c, n)
      [] n.kind = "Power" -> PowerEval(c, n)
      [] n.kind = "Group" -> Eval(c, n.Inner)

----
(* The tokenizer. *)

Digits == {"0", "1", "2", "3", "4", "5", "6", "7", "8", "9"}

\* the runes of the model for which unicode.IsLetter holds
Letters ==
    {"a", "b", "c", "d", "e", "f", "g", "h", "i", "j", "k", "l", "m", "n", "o",
     "p", "q", "r", "s", "t", "u", "v", "w", "x", "y", "z", "A", "B", "C", "D",
     "E", "F", "G", "H", "I", "J", "K", "L", "M", "N", "O", "P", "Q", "R", "S",
     "T", "U", "V", "W", "X", "Y", "Z", "mu", "micro", "ohm", "Icirc"}

IsDigit(r) == r \in Digits
IsLetter(r) == r \in Letters

isSpecialIdentifierStart(r) == r \in {"%", "deg", "micro", "mu", "ohm"}

isSpace(r) == r \in {" ", "tab", "nl", "cr"}

isIdentifierChar(r) == IsLetter(r) \/ IsDigit(r) \/ isSpecialIdentifierStart(r)

\* strings.Replace(s, old, " old ", -1) for a one-rune old
RECURSIVE Pad(_, _)
Pad(s, old) ==
    IF s = <<>> THEN <<>>
    ELSE IF Head(s) = old THEN <<" ", old, " ">> \o Pad(Tail(s), old)
    ELSE <<Head(s)>> \o Pad(Tail(s), old)

\* strings.Contains(s, "  ")
HasDoubleSpace(s) == \E i \in 1..(Len(s) - 1) : s[i] = " " /\ s[i + 1] = " "

\* strings.Replace(s, "  ", " ", -1): non-overlapping matches, left to right
RECURSIVE ReplaceDoubleSpace(_)
ReplaceDoubleSpace(s) ==
    IF Len(s) < 2 THEN s
    ELSE IF s[1] = " " /\ s[2] = " "
         THEN <<" ">> \o ReplaceDoubleSpace(SubSeq(s, 3, Len(s)))
    ELSE <<Head(s)>> \o ReplaceDoubleSpace(Tail(s))

RECURSIVE CollapseSpaces(_)
CollapseSpaces(s) ==
    IF HasDoubleSpace(s) THEN CollapseSpaces(ReplaceDoubleSpace(s)) ELSE s

RECURSIVE TrimLeft(_)
TrimLeft(s) == IF s # <<>> /\ isSpace(Head(s)) THEN TrimLeft(Tail(s)) ELSE s

TrimSpace(s) == Reverse(TrimLeft(Reverse(TrimLeft(s))))

normalizeInput(in) ==
    TrimSpace(CollapseSpaces(
        Pad(Pad(Pad(Pad(Pad(Pad(in, "("), ")"), "/"), "*"), "middot"), "^")))

Token(kind, value, offset) == [Kind |-> kind, Value |-> value, Offset |-> offset]

\* the token Next and Peek make up past the end: Token{Kind: EOF}
EOFToken == Token("EOF", <<>>, 0)

\* the end (a rune index) of the run of runes from i on that satisfy the
\* number loop's condition
RECURSIVE NumberEnd(_, _)
NumberEnd(s, i) ==
    IF i <= Len(s) /\ (IsDigit(s[i]) \/ s[i] = ".") THEN NumberEnd(s, i + 1) ELSE i

RECURSIVE IdentEnd(_, _)
IdentEnd(s, i) ==
    IF i <= Len(s) /\ isIdentifierChar(s[i]) THEN IdentEnd(s, i + 1) ELSE i

\* strconv.ParseFloat succeeds on a run of ASCII digits and dots that
\* starts with a digit exactly when it has at most one dot
ParseFloatOk(num) == Cardinality({i \in DOMAIN num : num[i] = "."}) <= 1

Lexed(toks, err) == [tokens |-> toks, err |-> err]

\* the single-character tokens without the middle dot
SingleKindStarOnly(r) ==
    CASE r = "(" -> "LParen"
      [] r = ")" -> "RParen"
      [] r = "*" -> "Multiply"
      [] r = "/" -> "Divide"
      [] r = "^" -> "Power"
      [] OTHER -> "Invalid"

SingleKind(r) ==
    CASE r = "(" -> "LParen"
      [] r = ")" -> "RParen"
      [] r = "*" \/ r = "middot" -> "Multiply"
      [] r = "/" -> "Divide"
      [] r = "^" -> "Power"
      [] OTHER -> "Invalid"

\* the loop of tokenizeFully: i is the rune index, pos the byte offset
RECURSIVE scan(_, _, _, _)
scan(s, i, pos, toks) ==
    IF i > Len(s) THEN Lexed(Append(toks, Token("EOF", <<>>, pos)), FALSE)
    ELSE LET r == s[i]
         IN  IF isSpace(r) THEN scan(s, i + 1, pos + Width(r), toks)
             ELSE IF SingleKind(r) # "Invalid"
                  THEN scan(s, i + 1, pos + Width(r),
                            Append(toks, Token(SingleKind(r), <<r>>, pos)))
             ELSE IF IsDigit(r)
                  THEN LET e == NumberEnd(s, i)
                           numStr == SubSeq(s, i, e - 1)
                       IN  IF ~ParseFloatOk(numStr) THEN Lexed(toks, TRUE)
                           ELSE scan(s, e, pos + ByteLen(numStr),
                                     Append(toks, Token("Number", numStr, pos)))
             ELSE IF IsLetter(r) \/ isSpecialIdentifierStart(r)
                  THEN LET e == IdentEnd(s, i)
                           ident == SubSeq(s, i, e - 1)
                       IN  scan(s, e, pos + ByteLen(ident),
                                Append(toks, Token("Identifier", ident, pos)))
             ELSE Lexed(toks, TRUE)

\* tokenizeFully that returns without appending the end-of-input token
tokenizeFullyNoEOF(in) ==
    LET l == scan(normalizeInput(in), 1, 0, <<>>)
    IN  IF l.err THEN l ELSE Lexed(SubSeq(l.tokens, 1, Len(l.tokens) - 1), FALSE)

tokenizeFully(in) == scan(normalizeInput(in), 1, 0, <<>>)

Tokenizer(in, toks, pos) == [input |-> in, tokens |-> toks, position |-> pos]

NewTokenizer(in) == Tokenizer(in, tokenizeFully(in).tokens, 0)

\* Peek that looks one token too far
TokenizerPeekAhead(t) ==
    IF t.position + 1 >= Len(t.tokens) THEN EOFToken ELSE t.tokens[t.position + 2]

TokenizerPeek(t) ==
    IF t.position >= Len(t.tokens) THEN EOFToken ELSE t.tokens[t.position + 1]

\* Next that steps over two tokens
TokenizerNextTwice(t) ==
    IF t.position >= Len(t.tokens) THEN [tok |-> EOFToken, t |-> t]
    ELSE [tok |-> t.tokens[t.position + 1],
          t |-> [t EXCEPT !.position = t.position + 2]]

\* Next: the token and the tokenizer after the call
TokenizerNext(t) ==
    IF t.position >= Len(t.tokens) THEN [tok |-> EOFToken, t |-> t]
    ELSE [tok |-> t.tokens[t.position + 1],
          t |-> [t EXCEPT !.position = t.position + 1]]

----
(* The parser: recursive descent over a Tokenizer, one token of          *)
(* lookahead.                                                            *)
(*   term   := power ( ('*' | '/') power )*                              *)
(*   power  := factor ( '^' INTEGER )?                                   *)
(*   factor := IDENT | NUMBER | '(' term ')'                             *)

DigitValue(r) ==
    CASE r = "0" -> 0 [] r = "1" -> 1 [] r = "2" -> 2 [] r = "3" -> 3
      [] r = "4" -> 4 [] r = "5" -> 5 [] r = "6" -> 6 [] r = "7" -> 7
      [] r = "8" -> 8 [] r = "9" -> 9

RECURSIVE DigitsValue(_, _)
DigitsValue(ds, acc) ==
    IF ds = <<>> THEN acc ELSE DigitsValue(Tail(ds), 10 * acc + DigitValue(Head(ds)))

\* strconv.ParseFloat on a literal the tokenizer accepted
ParseFloat(num) ==
    LET digits == SelectSeq(num, IsDigit)
        dot == IF \E i \in DOMAIN num : num[i] = "."
               THEN CHOOSE i \in DOMAIN num : num[i] = "." ELSE Len(num)
        frac == Len(num) - dot
        n == DigitsValue(digits, 0)
    IN  IF n = 0 THEN Special("zero") ELSE Fin(n, 1, -frac, -frac)

\* strconv.Atoi on a literal the tokenizer accepted
AtoiOk(num) == \A i \in DOMAIN num : IsDigit(num[i])
Atoi(num) == DigitsValue(num, 0)

NilNode == [kind |-> "nil"]

ParseOk(n, t) == [ok |-> TRUE, node |-> n, t |-> t]
ParseErr(t) == [ok |-> FALSE, node |-> NilNode, t |-> t]

\* Body applied to the value of v, which is computed once
With(v, Body(_)) == CHOOSE y \in {Body(x) : x \in {v}} : TRUE

RECURSIVE parseTerm(_)
RECURSIVE parseTermRest(_, _)

parseFactor(t) ==
    LET tok == TokenizerPeek(t)
        t1 == TokenizerNext(t).t
    IN  CASE tok.Kind = "Identifier" -> ParseOk(IdentNode(tok.Value), t1)
          [] tok.Kind = "Number" -> ParseOk(NumberNode(ParseFloat(tok.Value)), t1)
          [] tok.Kind = "LParen" ->
                With(parseTerm(t1), LAMBDA inner :
                    LET close == TokenizerNext(inner.t)
                    IN  IF ~inner.ok THEN ParseErr(inner.t)
                        ELSE IF close.tok.Kind # "RParen" THEN ParseErr(close.t)
                        ELSE ParseOk(GroupNode(inner.node), close.t))
          [] OTHER -> ParseErr(t)

parsePower(t) ==
    With(parseFactor(t), LAMBDA base :
        IF ~base.ok THEN base
        ELSE IF TokenizerPeek(base.t).Kind # "Power" THEN base
        ELSE LET exp == TokenizerNext(TokenizerNext(base.t).t)
             IN  IF exp.tok.Kind = "Number" /\ AtoiOk(exp.tok.Value)
                 THEN ParseOk(PowerNode(base.node, Atoi(exp.tok.Value)), exp.t)
                 ELSE ParseErr(exp.t))

\* the loop of parseTerm: left is the tree built so far
parseTermRest(left, t) ==
    LET tok == TokenizerPeek(t)
    IN  IF tok.Kind \notin {"Multiply", "Divide"} THEN ParseOk(left, t)
        ELSE With(parsePower(TokenizerNext(t).t), LAMBDA right :
                 IF ~right.ok THEN right
                 ELSE parseTermRest(BinaryNode(tok.Kind, left, right.node), right.t))

parseTerm(t) ==
    With(parsePower(t), LAMBDA left :
        IF ~left.ok THEN left ELSE parseTermRest(left.node, left.t))

\* Parser.Parse: a term, then end of input
ParserParse(t) ==
    With(parseTerm(t), LAMBDA r :
        IF ~r.ok THEN r
        ELSE IF TokenizerPeek(r.t).Kind # "EOF" THEN ParseErr(r.t)
        ELSE r)

ParseUnitAST(in) == ParserParse(NewTokenizer(in))

EvalAST(n, c) == Eval(c, n)

\* ParseComplexUnit: parse, then evaluate
ParseComplexUnit(in, c) ==
    With(ParseUnitAST(in), LAMBDA p :
        IF ~p.ok THEN EvalErr(<<>>) ELSE EvalAST(p.node, c))

----
(* The package API of si.go: ParseUnit, Parse, MustParse, and the        *)
(* conversion functions of conversion.go they go through.                *)

\* strings.Fields: the maximal runs of runes that are not white space
RECURSIVE FieldsFrom(_, _, _)
FieldsFrom(s, cur, acc) ==
    IF s = <<>> THEN (IF cur = <<>> THEN acc ELSE Append(acc, cur))
    ELSE IF isSpace(Head(s))
         THEN FieldsFrom(Tail(s), <<>>, IF cur = <<>> THEN acc ELSE Append(acc, cur))
    ELSE FieldsFrom(Tail(s), Append(cur, Head(s)), acc)

Fields(s) == FieldsFrom(s, <<>>, <<>>)

\* strings.Join(fields, "")
RECURSIVE Join(_)
Join(fields) == IF fields = <<>> THEN <<>> ELSE Head(fields) \o Join(Tail(fields))

ToLower(r) ==
    CASE r = "I" -> "i" [] r = "N" -> "n" [] r = "F" -> "f" [] r = "A" -> "a"
      [] r = "T" -> "t" [] r = "Y" -> "y" [] OTHER -> r

Lowered(s) == [i \in DOMAIN s |-> ToLower(s[i])]

\* the result of strconv.ParseFloat(s, 64)
Float(v) == [ok |-> TRUE, value |-> v]
NoFloat == [ok |-> FALSE, value |-> Special("zero")]

\* the first index from i on at which s has no digit
RECURSIVE DigitsEnd(_, _)
DigitsEnd(s, i) == IF i <= Len(s) /\ IsDigit(s[i]) THEN DigitsEnd(s, i + 1) ELSE i

\* a digit string without its leading zeros
RECURSIVE TrimZeros(_)
TrimZeros(ds) == IF ds # <<>> /\ Head(ds) = "0" THEN TrimZeros(Tail(ds)) ELSE ds

\* the decimal digits ds (no leading zero) read as 0.ds exceed the largest
\* float64, 0.17976931348623157e309, judged on the first four digits
AboveMaxFloat(ds) ==
    DigitsValue(SubSeq(ds \o <<"0", "0", "0", "0">>, 1, 4), 0) > 1797

\* strconv.ParseFloat(s, 64) on an unsigned literal: decimal digits with an
\* optional point and an optional signed decimal exponent, or one of the
\* names of infinity and not-a-number; a value out of range is an error
strconvParseFloat(s) ==
    LET body == IF s # <<>> /\ Head(s) = "+" THEN Tail(s) ELSE s
        intEnd == DigitsEnd(body, 1)
        hasDot == intEnd <= Len(body) /\ body[intEnd] = "."
        fracEnd == IF hasDot THEN DigitsEnd(body, intEnd + 1) ELSE intEnd
        intDigits == SubSeq(body, 1, intEnd - 1)
        fracDigits == IF hasDot THEN SubSeq(body, intEnd + 1, fracEnd - 1) ELSE <<>>
        hasExp == fracEnd <= Len(body) /\ body[fracEnd] \in {"e", "E"}
        signed == hasExp /\ fracEnd + 1 <= Len(body) /\ body[fracEnd + 1] \in {"+", "-"}
        expStart == IF signed THEN fracEnd + 2 ELSE fracEnd + 1
        expDigits == IF hasExp THEN SubSeq(body, expStart, Len(body)) ELSE <<>>
        expOk == ~hasExp \/ (expDigits # <<>> /\ \A i \in DOMAIN expDigits : IsDigit(expDigits[i]))
        exp == IF ~hasExp THEN 0
               ELSE IF signed /\ body[fracEnd + 1] = "-" THEN -DigitsValue(expDigits, 0)
               ELSE DigitsValue(expDigits, 0)
        mant == TrimZeros(intDigits \o fracDigits)
        n == DigitsValue(mant, 0)
        \* the value lies in [10^(mag-1), 10^mag)
        mag == Len(mant) - Len(fracDigits) + exp
    IN  IF Lowered(body) \in {<<"i", "n", "f">>, <<"i", "n", "f", "i", "n", "i", "t", "y">>}
        THEN Float(Special("inf"))
        ELSE IF Lowered(s) = <<"n", "a", "n">> THEN Float(Special("nan"))
        ELSE IF intDigits \o fracDigits = <<>> THEN NoFloat
        ELSE IF ~hasExp /\ fracEnd <= Len(body) THEN NoFloat
        ELSE IF ~expOk THEN NoFloat
        ELSE IF n = 0 THEN Float(Special("zero"))
        ELSE IF mag > 309 \/ (mag = 309 /\ AboveMaxFloat(mant)) THEN NoFloat
        ELSE IF mag < -323 THEN Float(Special("zero"))
        ELSE Float(Fin(n, 1, exp - Len(fracDigits), exp - Len(fracDigits)))

\* the values a func(Unit) interface{} hands back: a Unit, nil, or a value
\* of another type
Boxed(u) == [type |-> "Unit", unit |-> u]
BoxedNil == [type |-> "nil", unit |-> ZeroUnit]
BoxedOther == [type |-> "string", unit |-> ZeroUnit]

\* the functions RegisterConversionFunctions can be handed as its first
\* argument: the one init registers, nil, and one that returns no Unit
ToSIUnitFuncs == {"init", "nil", "string"}
FromSIUnitFuncs == {"init", "nil"}

ConvertToSIUnit(to, u) ==
    IF to = "nil" THEN BoxedNil
    ELSE IF to = "init" THEN Boxed(Unit(u.Value, u.Dimension))
    ELSE BoxedOther

\* what a call of the package API comes back with: a unit and no error, an
\* error, or a panic; text is the string a formatting call returns
Res(ok, panic, u, text) == [ok |-> ok, panic |-> panic, unit |-> u, text |-> text]
Returned(u) == Res(TRUE, FALSE, u, <<>>)
Failed(u) == Res(FALSE, FALSE, u, <<>>)
Panicked == Res(FALSE, TRUE, ZeroUnit, <<>>)
NoResult == Res(FALSE, FALSE, ZeroUnit, <<>>)

One == Unit(Whole(1), Dimensionless)

\* the type assertion .(Unit) panics on anything but a Unit
parseUnitExprWithAST(in, c, to) ==
    With(ParseComplexUnit(in, c), LAMBDA parserUnit :
        IF ~parserUnit.ok THEN Failed(ZeroUnit)
        ELSE LET siUnit == ConvertToSIUnit(to, parserUnit.unit)
             IN  IF siUnit.type = "Unit" THEN Returned(siUnit.unit) ELSE Panicked)

SymbolicUnits ==
    (<<"d", "B", "m">> :> Unit(Ten(-3), Dim(2, 1, -3, 0, 0, 0, 0))) @@
    (<<"p", "s", "i">> :> Unit(Fin(689476, 1, -2, -2), Dim(-1, 1, -2, 0, 0, 0, 0)))

ParseUnit(in, c, to) ==
    IF in = <<>> \/ in = <<"1">> THEN Returned(One)
    ELSE IF in \in DOMAIN SymbolicUnits THEN Returned(SymbolicUnits[in])
    ELSE parseUnitExprWithAST(in, c, to)

\* Parse with the multiplication by the magnitude left out
ParseUnscaled(in, c, to) ==
    LET fields == Fields(in)
        val == strconvParseFloat(fields[1])
    IN  IF Len(fields) = 1
        THEN (IF val.ok THEN Returned(Scalar(val.value)) ELSE Failed(One))
        ELSE IF Len(fields) < 2 THEN Failed(One)
        ELSE IF ~val.ok THEN Failed(One)
        ELSE With(parseUnitExprWithAST(Join(Tail(fields)), c, to), LAMBDA u :
                 IF u.panic THEN Panicked
                 ELSE IF ~u.ok THEN Failed(One)
                 ELSE Returned(u.unit))

Parse(in, c, to) ==
    LET fields == Fields(in)
        val == strconvParseFloat(fields[1])
    IN  IF Len(fields) = 1
        THEN (IF val.ok THEN Returned(Scalar(val.value)) ELSE Failed(One))
        ELSE IF Len(fields) < 2 THEN Failed(One)
        ELSE IF ~val.ok THEN Failed(One)
        ELSE With(parseUnitExprWithAST(Join(Tail(fields)), c, to), LAMBDA u :
                 IF u.panic THEN Panicked
                 ELSE IF ~u.ok THEN Failed(One)
                 ELSE Returned(Unit(FMul(u.unit.Value, val.value), u.unit.Dimension)))

\* MustParse that hands back the unit of a failed Parse instead of panicking
MustParseLenient(in, c, to) == Parse(in, c, to)

MustParse(in, c, to) ==
    With(Parse(in, c, to), LAMBDA r :
        IF r.panic \/ ~r.ok THEN Panicked ELSE Returned(r.unit))

----
(* Unit.ConvertTo. *)

\* the messages of the two errors, each as a text of one element
ErrDimensions == <<"cannot convert units with different dimensions">>
ErrZeroValue == <<"cannot convert to a unit with zero value">>

\* ConvertTo without the comparison of the dimensions
ConvertToUnchecked(u, t) ==
    IF t.Value.k = "zero" THEN Res(FALSE, FALSE, ZeroUnit, ErrZeroValue)
    ELSE Returned(Unit(FDiv(u.Value, t.Value), u.Dimension))

ConvertTo(u, t) ==
    IF u.Dimension # t.Dimension THEN Res(FALSE, FALSE, ZeroUnit, ErrDimensions)
    ELSE IF t.Value.k = "zero" THEN Res(FALSE, FALSE, ZeroUnit, ErrZeroValue)
    ELSE Returned(Unit(FDiv(u.Value, t.Value), u.Dimension))

----
(* Numbers as text: strconv.Itoa and the verb %g of fmt. A scalar is      *)
(* printed exactly when it is a decimal m * 10^k whose digits m the model *)
(* carries; the scalars the formatting calls are made with are of that    *)
(* kind.                                                                  *)

DigitRune(d) ==
    CASE d = 0 -> "0" [] d = 1 -> "1" [] d = 2 -> "2" [] d = 3 -> "3"
      [] d = 4 -> "4" [] d = 5 -> "5" [] d = 6 -> "6" [] d = 7 -> "7"
      [] d = 8 -> "8" [] d = 9 -> "9"

RECURSIVE NatDigits(_)
NatDigits(n) ==
    IF n < 10 THEN <<DigitRune(n)>> ELSE Append(NatDigits(n \div 10), DigitRune(n % 10))

Itoa(n) == IF n < 0 THEN <<"-">> \o NatDigits(-n) ELSE NatDigits(n)

\* m * p^e, or 0 when the product leaves the exact range
RECURSIVE Scale(_, _, _)
Scale(m, p, e) ==
    IF e = 0 \/ m = 0 THEN m
    ELSE IF ~Fits(m, p) THEN 0
    ELSE Scale(m * p, p, e - 1)

Min(a, b) == IF a <= b THEN a ELSE b

\* the exponent k and the digits m of the finite scalar v = m * 10^k, m not
\* a multiple of ten; m is 0 when the model does not carry the digits
DecimalExp(v) == Min(v.e2, v.e5)
DecimalDigits(v) ==
    IF v.d # 1 THEN 0
    ELSE Scale(Scale(v.n, 2, v.e2 - DecimalExp(v)), 5, v.e5 - DecimalExp(v))

Printable(v) == v.k \in {"zero", "inf", "nan"} \/ (v.k = "fin" /\ DecimalDigits(v) > 0)

\* the decimal exponent of the first digit: v lies in [10^x, 10^(x+1))
Exponent10(v) == Len(NatDigits(DecimalDigits(v))) + DecimalExp(v) - 1

\* v >= 10^j, as the comparisons of computePrefix need it
AtLeastTen(v, j) ==
    CASE v.k = "inf" -> TRUE
      [] v.k = "fin" -> Exponent10(v) >= j
      [] OTHER -> FALSE

Zeros(n) == [i \in 1..n |-> "0"]

\* %e with the shortest digits: d.ddde+xx
FormatE(digits, x) ==
    <<Head(digits)>>
    \o (IF Len(digits) > 1 THEN <<".">> \o Tail(digits) ELSE <<>>)
    \o <<"e", IF x < 0 THEN "-" ELSE "+">>
    \o (LET ax == IF x < 0 THEN -x ELSE x
        IN  IF ax < 10 THEN <<"0">> \o NatDigits(ax) ELSE NatDigits(ax))

\* %f with the shortest digits; dp is the position of the decimal point
FormatF(digits, dp) ==
    IF dp <= 0 THEN <<"0", ".">> \o Zeros(-dp) \o digits
    ELSE IF dp >= Len(digits) THEN digits \o Zeros(dp - Len(digits))
    ELSE SubSeq(digits, 1, dp) \o <<".">> \o SubSeq(digits, dp + 1, Len(digits))

\* fmt.Sprintf("%g", v): the shortest digits that give v back, in the form
\* %e when the exponent is below -4 or at least 6, in the form %f otherwise
FormatG(v) ==
    CASE v.k = "zero" -> <<"0">>
      [] v.k = "inf" -> <<"+", "I", "n", "f">>
      [] v.k = "nan" -> <<"N", "a", "N">>
      [] v.k = "fin" /\ DecimalDigits(v) > 0 ->
            LET digits == NatDigits(DecimalDigits(v))
                x == Exponent10(v)
            IN  IF x < -4 \/ x >= 6 THEN FormatE(digits, x)
                ELSE FormatF(digits, x + 1)
      [] OTHER -> <<"~">>

----
(* The formatter: DefaultFormatter.Format over the AST, dimensionToAST,   *)
(* FormatUnit, FormatUnitWithOptions, FormatUnitWithPrefix.               *)

BaseSymbols == <<<<"m">>, <<"k", "g">>, <<"s">>, <<"A">>, <<"K">>, <<"m", "o", "l">>, <<"c", "d">>>>

Length == Dim(1, 0, 0, 0, 0, 0, 0)
Mass == Dim(0, 1, 0, 0, 0, 0, 0)
TimeDim == Dim(0, 0, 1, 0, 0, 0, 0)
Current == Dim(0, 0, 0, 1, 0, 0, 0)
Temperature == Dim(0, 0, 0, 0, 1, 0, 0)

Meter == Unit(Whole(1), Length)
Kilogram == Unit(Whole(1), Mass)
Second == Unit(Whole(1), TimeDim)
Ampere == Unit(Whole(1), Current)
Kelvin == Unit(Whole(1), Temperature)
Newton == Div(Mul(Kilogram, Meter), Pow(Second, 2))
Joule == Mul(Newton, Meter)
Watt == Div(Joule, Second)
Pascal == Div(Newton, Pow(Meter, 2))
Hertz == Unit(Whole(1), Dim(0, 0, -1, 0, 0, 0, 0))
Volt == Div(Watt, Ampere)

defaultKnownSymbols ==
    (Newton.Dimension :> <<"N">>) @@ (Joule.Dimension :> <<"J">>) @@
    (Watt.Dimension :> <<"W">>) @@ (Pascal.Dimension :> <<"P", "a">>) @@
    (Hertz.Dimension :> <<"H", "z">>) @@ (Volt.Dimension :> <<"V">>)

\* FormatOptions; in ExponentFmt the rune "%d" is the verb
FormatOptions(mult, div, expFmt, parens, simplify, collapse, known) ==
    [MultSymbol |-> mult, DivSymbol |-> div, ExponentFmt |-> expFmt,
     UseParens |-> parens, Simplify |-> simplify, CollapseSymbols |-> collapse,
     KnownSymbols |-> known]

DefaultFormatOptions ==
    FormatOptions(<<"*">>, <<"/">>, <<"^", "%d">>, TRUE, FALSE, TRUE, defaultKnownSymbols)

\* fmt.Sprintf(format, n) for a format whose only verb is %d
RECURSIVE SprintfInt(_, _)
SprintfInt(format, n) ==
    IF format = <<>> THEN <<>>
    ELSE IF Head(format) = "%d" THEN Itoa(n) \o Tail(format)
    ELSE <<Head(format)>> \o SprintfInt(Tail(format), n)

Text(s) == [ok |-> TRUE, text |-> s]
NoText == [ok |-> FALSE, text |-> <<>>]

isBinaryNode(n) == n.kind = "Binary"
isBinaryDivision(n) == n.Op = "Divide"

RECURSIVE Format(_, _)

\* the BinaryNode case of Format with the parentheses of the operands left out
FormatBinaryBare(n, opts) ==
    With(Format(n.Left, opts), LAMBDA left :
    With(Format(n.Right, opts), LAMBDA right :
        IF ~left.ok \/ ~right.ok THEN NoText
        ELSE Text(left.text
                  \o (IF n.Op = "Divide" THEN opts.DivSymbol ELSE opts.MultSymbol)
                  \o right.text)))

FormatBinary(n, opts) ==
    With(Format(n.Left, opts), LAMBDA left :
    With(Format(n.Right, opts), LAMBDA right :
        IF ~left.ok \/ ~right.ok THEN NoText
        ELSE LET l == IF opts.UseParens /\ isBinaryNode(n.Left) /\ n.Op = "Divide"
                         /\ ~isBinaryDivision(n.Left)
                      THEN <<"(">> \o left.text \o <<")">> ELSE left.text
                 r == IF opts.UseParens /\ isBinaryNode(n.Right) /\ n.Op = "Divide"
                      THEN <<"(">> \o right.text \o <<")">> ELSE right.text
             IN  Text(l \o (IF n.Op = "Divide" THEN opts.DivSymbol ELSE opts.MultSymbol) \o r)))

\* the power node written without its exponent
FormatPowerBare(n, opts) == Format(n.Base, opts)

FormatPower(n, opts) ==
    With(Format(n.Base, opts), LAMBDA base :
        IF ~base.ok THEN NoText
        ELSE IF n.Exp = 1 /\ opts.Simplify THEN base
        ELSE Text((IF opts.UseParens /\ isBinaryNode(n.Base)
                   THEN <<"(">> \o base.text \o <<")">> ELSE base.text)
                  \o SprintfInt(opts.ExponentFmt, n.Exp)))

FormatGroup(n, opts) ==
    With(Format(n.Inner, opts), LAMBDA inner :
        IF ~inner.ok THEN NoText
        ELSE IF opts.UseParens THEN Text(<<"(">> \o inner.text \o <<")">>)
        ELSE inner)

Format(n, opts) ==
    CASE n.kind = "nil" -> NoText
      [] n.kind = "Ident" -> Text(n.Symbol)
      [] n.kind = "Number" -> Text(FormatG(n.Value))
      [] n.kind = "Binary" -> FormatBinary(n, opts)
      [] n.kind = "Power" -> FormatPower(n, opts)
      [] n.kind = "Group" -> FormatGroup(n, opts)

\* the node dimensionToAST appends for base dimension i with exponent e > 0
Factor(i, e) ==
    IF e # 1 THEN PowerNode(IdentNode(BaseSymbols[i]), e) ELSE IdentNode(BaseSymbols[i])

\* the nodes of the base dimensions is lists, in that order, that have a
\* positive exponent in dim (sign 1) or a negative one (sign -1)
RECURSIVE Factors(_, _, _)
Factors(dim, is, sign) ==
    IF is = <<>> THEN <<>>
    ELSE (IF sign * dim[Head(is)] > 0
          THEN <<Factor(Head(is), sign * dim[Head(is)])>> ELSE <<>>)
         \o Factors(dim, Tail(is), sign)

\* the chain of multiplications the loops of dimensionToAST build
RECURSIVE Chain(_, _)
Chain(left, rest) ==
    IF rest = <<>> THEN left
    ELSE Chain(BinaryNode("Multiply", left, Head(rest)), Tail(rest))

\* dimensionToAST with the numerator in the order of the dimension vector
dimensionToASTInVectorOrder(dim) ==
    LET found == Factors(dim, <<1, 2, 3, 4, 5, 6, 7>>, 1)
        denominator == Factors(dim, <<3, 4, 5, 6, 7, 1, 2>>, -1)
        numerator == IF found = <<>> THEN <<NumberNode(Whole(1))>> ELSE found
        numNode == Chain(Head(numerator), Tail(numerator))
    IN  IF found = <<>> /\ denominator = <<>> THEN NumberNode(Whole(1))
        ELSE IF denominator = <<>> THEN numNode
        ELSE BinaryNode("Divide", numNode, Chain(Head(denominator), Tail(denominator)))

\* mass first, then length, then the others; the negative exponents of
\* length and mass go last
dimensionToAST(dim) ==
    LET found == Factors(dim, <<2, 1, 3, 4, 5, 6, 7>>, 1)
        denominator == Factors(dim, <<3, 4, 5, 6, 7, 1, 2>>, -1)
        numerator == IF found = <<>> THEN <<NumberNode(Whole(1))>> ELSE found
        numNode == Chain(Head(numerator), Tail(numerator))
    IN  IF found = <<>> /\ denominator = <<>> THEN NumberNode(Whole(1))
        ELSE IF denominator = <<>> THEN numNode
        ELSE BinaryNode("Divide", numNode, Chain(Head(denominator), Tail(denominator)))

\* fmt.Sprintf("%g %s", value, s)
WithValue(v, s) == FormatG(v) \o <<" ">> \o s

IsOne(v) == v = Whole(1)

\* FormatUnitWithOptions that never looks a dimension up in KnownSymbols
FormatUnitWithOptionsExpanded(u, opts) ==
    IF u.Dimension = Dimensionless THEN FormatG(u.Value)
    ELSE LET unitStr == Format(dimensionToAST(u.Dimension), opts).text
         IN  IF ~IsOne(u.Value) THEN WithValue(u.Value, unitStr) ELSE unitStr

\* dimensionToAST returns no error, and Format none on the nodes it builds,
\* so the fallback to formatDimensionFallback is never taken
FormatUnitWithOptions(u, opts) ==
    IF u.Dimension = Dimensionless THEN FormatG(u.Value)
    ELSE IF opts.CollapseSymbols /\ u.Dimension \in DOMAIN opts.KnownSymbols
         THEN (IF ~IsOne(u.Value) THEN WithValue(u.Value, opts.KnownSymbols[u.Dimension])
               ELSE opts.KnownSymbols[u.Dimension])
    ELSE LET unitStr == Format(dimensionToAST(u.Dimension), opts).text
         IN  IF ~IsOne(u.Value) THEN WithValue(u.Value, unitStr) ELSE unitStr

formatUnitDimension(u) ==
    LET opts == DefaultFormatOptions
    IN  IF opts.CollapseSymbols /\ u.Dimension \in DOMAIN opts.KnownSymbols
        THEN opts.KnownSymbols[u.Dimension]
        ELSE IF Div(Watt, Mul(Meter, Kelvin)).Dimension = u.Dimension
             THEN <<"W", "/", "(", "m", "*", "K", ")">>
        ELSE IF Div(Joule, Mul(Kilogram, Kelvin)).Dimension = u.Dimension
             THEN <<"J", "/", "(", "k", "g", "*", "K", ")">>
        ELSE IF u.Dimension = Div(Joule, Pow(Meter, 3)).Dimension THEN <<"P", "a">>
        ELSE Format(dimensionToAST(u.Dimension), opts).text

FormatUnit(u) ==
    IF u.Dimension = Dimensionless THEN FormatG(u.Value)
    ELSE IF ~IsOne(u.Value)
         THEN (IF u.Dimension = Pascal.Dimension
               THEN FormatG(u.Value) \o <<" ", "P", "a">>
               ELSE WithValue(u.Value, formatUnitDimension(u)))
    ELSE formatUnitDimension(u)

\* computePrefix: the prefix and the scaled value
Scaled(p, v) == [prefix |-> p, scaled |-> v]

computePrefix(value) ==
    CASE value.k = "zero" -> Scaled(<<>>, Special("zero"))
      [] AtLeastTen(value, 9) -> Scaled(<<"G">>, FDiv(value, Ten(9)))
      [] AtLeastTen(value, 6) -> Scaled(<<"M">>, FDiv(value, Ten(6)))
      [] AtLeastTen(value, 3) -> Scaled(<<"k">>, FDiv(value, Ten(3)))
      [] AtLeastTen(value, 0) -> Scaled(<<>>, value)
      [] AtLeastTen(value, -3) -> Scaled(<<"m">>, FMul(value, Ten(3)))
      [] AtLeastTen(value, -6) -> Scaled(<<"Icirc", "quarter">>, FMul(value, Ten(6)))
      [] AtLeastTen(value, -9) -> Scaled(<<"n">>, FMul(value, Ten(9)))
      [] OTHER -> Scaled(<<"p">>, FMul(value, Ten(12)))

isBaseSIUnit(dim, index, exponent) ==
    exponent = 1 /\ \A i \in 1..NDims : i # index => dim[i] = 0

\* fmt.Sprintf("%g %s%s", scaled, prefix, symbol)
WithPrefix(value, sym) ==
    LET p == computePrefix(value)
    IN  FormatG(p.scaled) \o <<" ">> \o p.prefix \o sym

FormatUnitWithPrefix(u) ==
    IF u.Dimension = Dimensionless THEN FormatG(u.Value)
    ELSE IF \E i \in 1..NDims : isBaseSIUnit(u.Dimension, i, u.Dimension[i])
         THEN WithPrefix(u.Value,
                  BaseSymbols[CHOOSE i \in 1..NDims : isBaseSIUnit(u.Dimension, i, u.Dimension[i])])
    ELSE IF u.Dimension = Newton.Dimension THEN WithPrefix(u.Value, <<"N">>)
    ELSE IF u.Dimension = Pascal.Dimension THEN WithPrefix(u.Value, <<"P", "a">>)
    ELSE IF u.Dimension = Joule.Dimension THEN WithPrefix(u.Value, <<"J">>)
    ELSE IF u.Dimension = Watt.Dimension THEN WithPrefix(u.Value, <<"W">>)
    ELSE IF u.Dimension = Hertz.Dimension THEN WithPrefix(u.Value, <<"H", "z">>)
    ELSE IF u.Dimension = Volt.Dimension THEN WithPrefix(u.Value, <<"V">>)
    ELSE FormatUnit(u)

----
(* Unit.MarshalJSON and Unit.UnmarshalJSON. *)

\* json.Marshal of a string without a rune that needs escaping
jsonMarshal(s) == <<"quote">> \o s \o <<"quote">>

\* json.Unmarshal into a string
jsonUnmarshal(data) ==
    IF Len(data) >= 2 /\ Head(data) = "quote" /\ data[Len(data)] = "quote"
       /\ \A i \in 2..(Len(data) - 1) : data[i] # "quote"
    THEN Text(SubSeq(data, 2, Len(data) - 1))
    ELSE NoText

MarshalJSON(u) == jsonMarshal(FormatUnitWithPrefix(u))

UnmarshalJSON(data, c, to) ==
    LET in == jsonUnmarshal(data)
    IN  IF ~in.ok THEN Failed(ZeroUnit)
        ELSE With(Parse(in.text, c, to), LAMBDA r :
                 IF r.panic THEN Panicked
                 ELSE IF ~r.ok THEN Failed(ZeroUnit)
                 ELSE Returned(r.unit))

----
(* New. *)

\* New that gives up on a symbol ParseUnit refuses
NewStrict(v, sym, c, to) ==
    IF sym = <<"g">> THEN Returned(Unit(FDiv(v, Whole(1000)), Mass))
    ELSE With(ParseUnit(sym, c, to), LAMBDA u :
             IF u.panic THEN Panicked
             ELSE IF ~u.ok THEN Panicked
             ELSE Returned(Unit(v, u.unit.Dimension)))

\* New(value, symbol): u.Value = value overwrites the value ParseUnit returned
New(v, sym, c, to) ==
    IF sym = <<"g">> THEN Returned(Unit(FDiv(v, Whole(1000)), Mass))
    ELSE With(ParseUnit(sym, c, to), LAMBDA u :
             IF u.panic THEN Panicked
             ELSE IF ~u.ok THEN Returned(Scalar(v))
             ELSE Returned(Unit(v, u.unit.Dimension)))

----
(* The inputs the calls are made with. *)

\* all strings over alphabet of length at most n
Strings(alphabet, n) == UNION {[1..k -> alphabet] : k \in 0..n}

Contexts == {NewStandardContext(keys) : keys \in IterationOrders}

\* the context of the first iteration order
FirstContext ==
    NewStandardContext([i \in DOMAIN PrefixEntries |-> PrefixEntries[i][1]])

UnitSymbols == DOMAIN registerBaseUnits \cup DOMAIN registerDerivedUnits(registerBaseUnits)

\* a prefix, registered or not, in front of a unit symbol or of something else
Symbols ==
    {p \o u : p \in DOMAIN registerPrefixes \cup {<<"K">>, <<"x">>},
              u \in UnitSymbols \cup
                    {<<>>, <<"g">>, <<"1">>, <<"x">>, <<"a", "m">>, <<"m", "m">>}}
    \cup {<<"x", "y", "z", "z", "y">>, <<"G", "i", "H", "z">>,
          <<"m", "i", "n", "s">>, <<"k", "k", "g">>}

EvalLeaves ==
    {IdentNode(<<"m">>), IdentNode(<<"h">>), IdentNode(<<"x">>),
     NumberNode(Whole(2))}

EvalExps == {-1, 0, 3}

EvalOperands ==
    EvalLeaves
    \cup {BinaryNode(o, l, r) : o \in {"Multiply", "Divide"},
                                l \in EvalLeaves, r \in EvalLeaves}
    \cup {PowerNode(l, e) : l \in EvalLeaves, e \in EvalExps}
    \cup {GroupNode(l) : l \in EvalLeaves}

EvalNodes ==
    {BinaryNode(o, l, r) : o \in {"Multiply", "Divide", "Power"},
                           l \in EvalOperands, r \in EvalOperands}
    \cup {PowerNode(l, e) : l \in EvalOperands, e \in EvalExps}

FullAlphabet == {"m", "2", ".", "*", "middot", "/", "^", "(", " ", "$"}

TokenAlphabet == {"m", "2", "*", "/", "^", "(", ")"}

Examples ==
    {<<"m", "/">>, <<"m", "/", "s", "/">>, <<"*", "m">>,
     <<"k", "g", "*", "/", "s">>, <<"k", "g", "^", "x">>,
     <<"m", "^", "2", "^", "3">>, <<"m", "^", "^", "2">>,
     <<"(", "(", "k", "g", "*", "m", ")", "/", "s", ")", "^", "2">>,
     <<"(", "k", "g">>, <<"k", "g", ")">>,
     <<"k", "g", "*", "m", "/", "s", "^", "2">>,
     <<"k", "g", "middot", "m", "/", "s", "^", "2">>,
     <<"(", "k", "g", "middot", "m", ")", "/", "(", "s", "^", "2", ")">>,
     <<"W", "/", "(", "m", "^", "2", "*", "K", "^", "4", ")">>,
     <<"k", "m", "/", "h">>, <<"m", "/", "s", "/", "K">>,
     <<"m", "/", "s", "*", "K">>, <<"m", "/", "s", "middot", "K">>,
     <<"m", "^", "2", ".", "5">>, <<"m", " ", "1", ".", "2", ".", "3">>,
     <<"k", "g", " ", "$">>, <<"x", "y", "z", "z", "y">>,
     <<"2", "*", "m", "/", "0">>, <<"micro", "s", "middot", "ohm">>}

Inputs ==
    Strings(FullAlphabet, MaxLen) \cup Strings(TokenAlphabet, MaxTokLen)
    \cup Examples

\* the runes of the strings Parse is called with
ParseAlphabet == {"2", ".", "e", " ", "m", "/"}

ParseExamples ==
    {<<"1", "0", " ", "m">>, <<"3", ".", "1", "4", " ", "k", "g">>,
     <<"1", ".", "2", "e", "3", " ", "W">>,
     <<"9", ".", "8", " ", "m", "/", "s", "^", "2">>,
     <<"1", "0", "0", " ", "k", "m", "/", "h">>, <<"0", ".", "5">>,
     <<"1", ".", "2", "e", "3">>, <<"i", "n", "v", "a", "l", "i", "d">>,
     <<"b", "a", "d", " ", "m">>, <<"4", ".", "1", "8", "4", " ", "k", "J">>,
     <<"1", "0", "1", ".", "3", "2", "5", " ", "k", "P", "a">>,
     <<"5", "0", " ", "N", "*", "m">>,
     <<"1", "4", ".", "7", " ", "p", "s", "i">>,
     <<"2", "5", " ", "deg", "C">>, <<"5", " ", "m", " ", "s">>,
     <<"2", " ", "k", " ", "g">>, <<" ", " ", " ">>, <<"p", "s", "i">>,
     <<"d", "B", "m">>, <<"1">>, <<"k", "m", "/", "h">>, <<"m", "/", "s">>,
     <<"2", " ", "x", "y", "z", "z", "y">>,
     <<"2", "e", "9", "9", "9", " ", "m">>, <<"i", "n", "f", " ", "m">>,
     <<"N", "a", "N">>, <<"5", " ", "k", "k", "g">>, <<"2", " ", "(", "m">>,
     <<"+", "2", " ", "m">>, <<"2", ".", " ", "m">>, <<".", "5", " ", "s">>,
     <<"2", "e", " ", "m">>,
     <<"7", " ", "k", "g", "*", "m", "/", "s", "^", "2">>}

ParseInputs == Strings(ParseAlphabet, MaxParseLen) \cup ParseExamples

\* scalars: 0, 1, 2, 1000, 2500, 1/2, 1/500, 10^-5, 10^6, 10^15, 101325,
\* 1/3, +Inf, NaN
Values ==
    {Special("zero"), Whole(1), Whole(2), Whole(1000), Whole(2500),
     Fin(1, 2, 0, 0), Fin(1, 500, 0, 0), Ten(-5), Ten(6), Ten(15),
     Whole(101325), Fin(1, 3, 0, 0), Special("inf"), Special("nan")}

NamedDimensions ==
    {Dimensionless, Length, Mass, TimeDim, Temperature, Newton.Dimension,
     Joule.Dimension, Watt.Dimension, Pascal.Dimension, Hertz.Dimension,
     Volt.Dimension, Dim(1, 0, -1, 0, 0, 0, 0), Dim(2, 1, -3, 1, -1, 0, 0),
     Dim(3, 0, 0, 0, 0, 0, 0), Dim(-2, -3, 0, 0, 0, 0, 0),
     Dim(1, 1, -3, 0, -1, 0, 0), Dim(2, 0, -2, 0, -1, 0, 0)}

Units == {Unit(v, d) : v \in Values, d \in NamedDimensions}

\* every dimension with exponents between -1 and 1, and the named ones
FormatDimensions == [1..NDims -> {-1, 0, 1}] \cup NamedDimensions

FormatOptionsSet ==
    {DefaultFormatOptions,
     [DefaultFormatOptions EXCEPT !.CollapseSymbols = FALSE],
     [DefaultFormatOptions EXCEPT !.CollapseSymbols = FALSE, !.UseParens = FALSE],
     [DefaultFormatOptions EXCEPT !.Simplify = TRUE],
     FormatOptions(<<"middot">>, <<"/">>, <<"*", "*", "%d">>, TRUE, FALSE, FALSE,
                   defaultKnownSymbols)}

\* unit expressions, among them several for each registered dimension
FormatExamples ==
    {<<"k", "g", "*", "m", "/", "s", "^", "2">>, <<"N">>,
     <<"k", "g", "*", "m", "*", "m", "/", "s", "^", "2">>, <<"J">>,
     <<"N", "*", "m">>, <<"m", "*", "N">>, <<"J", "/", "s">>,
     <<"k", "g", "*", "m", "^", "2", "/", "s", "^", "3">>, <<"W">>,
     <<"N", "/", "m", "^", "2">>,
     <<"k", "g", "/", "(", "m", "*", "s", "^", "2", ")">>, <<"P", "a">>,
     <<"J", "/", "m", "^", "3">>, <<"1", "/", "s">>, <<"H", "z">>,
     <<"W", "/", "A">>, <<"V">>, <<"J", "/", "(", "A", "*", "s", ")">>,
     <<"k", "N">>, <<"k", "H", "z">>,
     <<"(", "k", "g", "*", "m", ")", "/", "(", "s", "*", "s", ")">>,
     <<"k", "g", "*", "(", "m", "/", "s", "^", "2", ")">>,
     <<"W", "*", "s", "/", "m">>, <<"m", "/", "s">>, <<"k", "g">>,
     <<"x", "y", "z", "z", "y">>, <<"N", "/">>,
     <<"W", "/", "(", "m", "*", "K", ")">>}

\* the values New is called with: 0, 1, 5, 100, 500, 1/2, 3/2, +Inf, NaN
NewValues ==
    {Special("zero"), Whole(1), Whole(5), Whole(100), Whole(500),
     Fin(1, 2, 0, 0), Fin(3, 2, 0, 0), Special("inf"), Special("nan")}

\* the symbols New is called with: units, prefixed units, the gram, unit
\* expressions, symbolic units, and symbols ParseUnit refuses
NewSymbols ==
    {<<"m">>, <<"k", "g">>, <<"g">>, <<"c", "m">>, <<"k", "m">>, <<"m", "A">>,
     <<"k", "P", "a">>, <<"s">>, <<"K">>, <<"h">>, <<"M", "i", "B">>, <<"M", "B">>,
     <<"m", "g">>, <<"k", "m", "/", "h">>, <<"p", "s", "i">>, <<"d", "B", "m">>,
     <<>>, <<"1">>, <<"x", "y", "z", "z", "y">>, <<"m", "/">>, <<"(", "m">>,
     <<"k", "g", " ", "$">>, <<"g", "/", "s">>, <<"2", "*", "m">>}

\* the default options with collapsing to known symbols switched off
ExpandedOptions == [DefaultFormatOptions EXCEPT !.CollapseSymbols = FALSE]

\* dimensions with exponents beyond -1 .. 1
WideDimensions ==
    {Dim(2, 0, 0, 0, 0, 0, 0), Dim(0, 0, -2, 0, 0, 0, 0), Dim(10, 0, 0, 0, 0, 0, 0),
     Dim(0, -12, 0, 0, 0, 0, 0), Dim(2, 2, -2, -2, 0, 0, 0),
     Dim(-2, -2, -2, -2, 0, 0, 0), Dim(0, 0, 0, 0, 0, 2, -5),
     Dim(1, 2, 3, 4, 0, 0, 0), Dim(-1, -2, -3, -4, 0, 0, 0),
     Dim(0, 0, 0, 0, 3, -3, 4)}

\* the units Pow is called on: 2 m, 1/2 kg/s, 0 s, 3 (dimensionless)
PowUnits ==
    {Unit(Whole(2), Length), Unit(Fin(1, 2, 0, 0), Dim(0, 1, -1, 0, 0, 0, 0)),
     Unit(Special("zero"), TimeDim), Unit(Whole(3), Dimensionless)}

Goroutines == 1..MaxGoroutines

\* symbols that leave Resolve at each of its returns
ConcurrentSymbols ==
    {<<"1">>, <<"g">>, <<"m">>, <<"N">>, <<"M", "i", "B">>, <<"d", "a", "m">>,
     <<"m", "g">>}

----
(* The calls. A call is made when no other is under way and leaves its   *)
(* arguments and results until it returns.                               *)

Idle ==
    /\ op = "none"
    /\ symbol = <<>> /\ resolved = Err
    /\ node = NilNode /\ evaluated = EvalErr(<<>>)
    /\ input = <<>> /\ tokens = <<>> /\ lexErr = FALSE /\ position = 0
    /\ parsed = ParseErr(Tokenizer(<<>>, <<>>, 0))
    /\ toSIUnit = "init" /\ fromSIUnit = "init"
    /\ unit = ZeroUnit /\ target = ZeroUnit
    /\ options = DefaultFormatOptions /\ result = NoResult
    /\ number = Special("zero") /\ power = 0 /\ stack = <<>>
    /\ goroutines = [g \in Goroutines |-> NotInResolve]
    /\ returned = EOFToken

ResolveCall(sym) ==
    /\ op = "none"
    /\ op' = "Resolve"
    /\ symbol' = sym
    /\ resolved' = Resolve(ctx, sym)
    /\ UNCHANGED <<ctx, node, evaluated, input, tokens, lexErr, position, parsed>>
    /\ UNCHANGED <<globals, frame, extra>>

EvalCall(n) ==
    /\ op = "none"
    /\ op' = "Eval"
    /\ node' = n
    /\ evaluated' = EvalAST(n, ctx)
    /\ UNCHANGED <<ctx, symbol, resolved, input, tokens, lexErr, position, parsed>>
    /\ UNCHANGED <<globals, frame, extra>>

\* tokenize(input): the tokens and the error of tokenizeFully
TokenizeCall(in) ==
    /\ op = "none"
    /\ op' = "tokenize"
    /\ input' = in
    /\ tokens' = tokenizeFully(in).tokens
    /\ lexErr' = tokenizeFully(in).err
    /\ UNCHANGED <<ctx, symbol, resolved, node, evaluated, position, parsed>>
    /\ UNCHANGED <<globals, frame, extra>>

\* ParseComplexUnit(input, ctx): the tokenizer it made and where it stopped,
\* the tree, the unit
ParseComplexUnitCall(in) ==
    /\ op = "none"
    /\ op' = "ParseComplexUnit"
    /\ input' = in
    /\ tokens' = NewTokenizer(in).tokens
    /\ parsed' = ParseUnitAST(in)
    /\ position' = parsed'.t.position
    /\ node' = parsed'.node
    /\ evaluated' = IF parsed'.ok THEN EvalAST(parsed'.node, ctx) ELSE EvalErr(<<>>)
    /\ UNCHANGED <<ctx, symbol, resolved, lexErr>>
    /\ UNCHANGED <<globals, frame, extra>>

\* RegisterConversionFunctions(to, from)
RegisterConversionFunctionsCall(to, from) ==
    /\ op = "none"
    /\ toSIUnit' = to
    /\ fromSIUnit' = from
    /\ UNCHANGED <<ctx, op, symbol, resolved, node, evaluated, input, tokens,
                   lexErr, position, parsed, frame, extra>>

\* ParseUnit(input); c is the context NewStandardContext hands the call
ParseUnitCall(c, in) ==
    /\ op = "none"
    /\ op' = "ParseUnit"
    /\ ctx' = c
    /\ input' = in
    /\ result' = ParseUnit(in, c, toSIUnit)
    /\ UNCHANGED <<symbol, resolved, node, evaluated, tokens, lexErr, position,
                   parsed, globals, extra, unit, target, options>>

\* Parse(input)
ParseCall(c, in) ==
    /\ op = "none"
    /\ op' = "Parse"
    /\ ctx' = c
    /\ input' = in
    /\ result' = Parse(in, c, toSIUnit)
    /\ UNCHANGED <<symbol, resolved, node, evaluated, tokens, lexErr, position,
                   parsed, globals, extra, unit, target, options>>

\* MustParse(input)
MustParseCall(c, in) ==
    /\ op = "none"
    /\ op' = "MustParse"
    /\ ctx' = c
    /\ input' = in
    /\ result' = MustParse(in, c, toSIUnit)
    /\ UNCHANGED <<symbol, resolved, node, evaluated, tokens, lexErr, position,
                   parsed, globals, extra, unit, target, options>>

\* u.ConvertTo(t)
ConvertToCall(u, t) ==
    /\ op = "none"
    /\ op' = "ConvertTo"
    /\ unit' = u
    /\ target' = t
    /\ result' = ConvertTo(u, t)
    /\ UNCHANGED <<ctx, symbol, resolved, node, evaluated, input, tokens, lexErr,
                   position, parsed, globals, extra, options>>

\* FormatUnitWithOptions(Unit{1, dim}, &opts)
FormatDimensionCall(dim, opts) ==
    /\ op = "none"
    /\ op' = "FormatUnitWithOptions"
    /\ unit' = Unit(Whole(1), dim)
    /\ options' = opts
    /\ result' = Res(TRUE, FALSE, ZeroUnit, FormatUnitWithOptions(Unit(Whole(1), dim), opts))
    /\ UNCHANGED <<ctx, symbol, resolved, node, evaluated, input, tokens, lexErr,
                   position, parsed, globals, extra, target>>

\* ParseComplexUnit(input, ctx), then FormatUnitWithOptions on a unit of the
\* dimension that came out
ParseThenFormatCall(in, opts) ==
    /\ op = "none"
    /\ op' = "ParseThenFormat"
    /\ input' = in
    /\ evaluated' = ParseComplexUnit(in, ctx)
    /\ unit' = Unit(Whole(1), evaluated'.unit.Dimension)
    /\ options' = opts
    /\ result' = IF evaluated'.ok
                 THEN Res(TRUE, FALSE, ZeroUnit, FormatUnitWithOptions(unit', opts))
                 ELSE NoResult
    /\ UNCHANGED <<ctx, symbol, resolved, node, tokens, lexErr, position, parsed,
                   globals, extra, target>>

\* json.Marshal(u), then json.Unmarshal of the bytes into a Unit: input is
\* the string between the quotes
JSONRoundTripCall(c, u) ==
    /\ op = "none"
    /\ op' = "JSON"
    /\ ctx' = c
    /\ unit' = u
    /\ input' = FormatUnitWithPrefix(u)
    /\ result' = UnmarshalJSON(MarshalJSON(u), c, toSIUnit)
    /\ UNCHANGED <<symbol, resolved, node, evaluated, tokens, lexErr, position,
                   parsed, globals, extra, target, options>>

\* goroutine g calls ctx.Resolve(sym)
ResolveBegin(g, sym) ==
    /\ goroutines[g].pc = "idle"
    /\ goroutines' = [goroutines EXCEPT ![g] = ResolveFrame("special", sym, 0, Err)]
    /\ UNCHANGED <<ctx, op, symbol, resolved, node, evaluated, input, tokens,
                   lexErr, position, parsed, globals, frame, number, power, stack,
                   returned>>

\* goroutine g makes the test it is at
ResolveAdvance(g) ==
    /\ goroutines[g].pc \notin {"idle", "done"}
    /\ ctx' = ResolveStep(ctx, goroutines[g]).ctx
    /\ goroutines' = [goroutines EXCEPT ![g] = ResolveStep(ctx, goroutines[g]).frame]
    /\ UNCHANGED <<op, symbol, resolved, node, evaluated, input, tokens,
                   lexErr, position, parsed, globals, frame, number, power, stack,
                   returned>>

\* goroutine g takes the result of its call
ResolveEnd(g) ==
    /\ goroutines[g].pc = "done"
    /\ goroutines' = [goroutines EXCEPT ![g] = NotInResolve]
    /\ UNCHANGED <<ctx, op, symbol, resolved, node, evaluated, input, tokens,
                   lexErr, position, parsed, globals, frame, number, power, stack,
                   returned>>

\* New(v, sym); c is the context NewStandardContext hands the call
NewCall(c, v, sym) ==
    /\ op = "none"
    /\ op' = "New"
    /\ ctx' = c
    /\ number' = v
    /\ symbol' = sym
    /\ result' = New(v, sym, c, toSIUnit)
    /\ UNCHANGED <<resolved, node, evaluated, input, tokens, lexErr, position,
                   parsed, globals, unit, target, options, power, stack,
                   goroutines, returned>>

\* FormatUnitWithOptions(Unit{1, dim}, &opts), then ParseComplexUnit on the
\* string that came out
FormatThenParseCall(dim, opts) ==
    /\ op = "none"
    /\ op' = "FormatThenParse"
    /\ unit' = Unit(Whole(1), dim)
    /\ options' = opts
    /\ input' = FormatUnitWithOptions(Unit(Whole(1), dim), opts)
    /\ evaluated' = ParseComplexUnit(input', ctx)
    /\ UNCHANGED <<ctx, symbol, resolved, node, tokens, lexErr, position, parsed,
                   globals, extra, target, result>>

\* NewTokenizer(in): op is the last call made on the tokenizer
NewTokenizerCall(in) ==
    /\ op = "none"
    /\ op' = "NewTokenizer"
    /\ input' = in
    /\ tokens' = NewTokenizer(in).tokens
    /\ position' = NewTokenizer(in).position
    /\ UNCHANGED <<ctx, symbol, resolved, node, evaluated, lexErr, parsed,
                   globals, frame, extra>>

\* t.Peek() on the tokenizer made before
PeekCall ==
    /\ op \in {"NewTokenizer", "Peek", "Next"}
    /\ op' = "Peek"
    /\ returned' = TokenizerPeek(Tokenizer(input, tokens, position))
    /\ UNCHANGED <<ctx, symbol, resolved, node, evaluated, input, tokens, lexErr,
                   position, parsed, globals, frame, number, power, stack,
                   goroutines>>

\* t.Next() on the tokenizer made before
NextCall ==
    /\ op \in {"NewTokenizer", "Peek", "Next"}
    /\ op' = "Next"
    /\ returned' = TokenizerNext(Tokenizer(input, tokens, position)).tok
    /\ position' = TokenizerNext(Tokenizer(input, tokens, position)).t.position
    /\ UNCHANGED <<ctx, symbol, resolved, node, evaluated, input, tokens, lexErr,
                   parsed, globals, frame, number, power, stack, goroutines>>

\* u.Pow(e): the dimension is multiplied out, then pow(u.Value, e) is called;
\* stack holds the argument n of every call of pow under way
PowCall(u, e) ==
    /\ op = "none"
    /\ op' = "pow"
    /\ unit' = u
    /\ power' = e
    /\ stack' = <<e>>
    /\ UNCHANGED <<ctx, symbol, resolved, node, evaluated, input, tokens, lexErr,
                   position, parsed, globals, target, options, result, number,
                   goroutines, returned>>

\* the innermost call of pow: it returns 1 for n = 0 and calls pow otherwise
PowDescend ==
    /\ op = "pow"
    /\ LET n == stack[Len(stack)]
       IN  IF n = 0
           THEN /\ op' = "pow returns"
                /\ number' = Whole(1)
                /\ stack' = SubSeq(stack, 1, Len(stack) - 1)
           ELSE IF Len(stack) >= StackLimit
           THEN /\ op' = "stack overflow"
                /\ UNCHANGED <<number, stack>>
           ELSE /\ op' = "pow"
                /\ stack' = Append(stack, powInner(n))
                /\ UNCHANGED number
    /\ UNCHANGED <<ctx, symbol, resolved, node, evaluated, input, tokens, lexErr,
                   position, parsed, globals, frame, power, goroutines, returned>>

\* a call of pow gets the result of its inner call and returns its own; the
\* outermost one returns to Pow, which returns the unit
PowUnwind ==
    /\ op = "pow returns"
    /\ IF stack = <<>>
       THEN /\ op' = "Pow"
            /\ result' = Returned(Unit(number,
                              [i \in 1..NDims |-> Wrap(unit.Dimension[i] * power)]))
            /\ UNCHANGED <<number, stack>>
       ELSE /\ op' = "pow returns"
            /\ number' = powOuter(unit.Value, stack[Len(stack)], number)
            /\ stack' = SubSeq(stack, 1, Len(stack) - 1)
            /\ UNCHANGED result
    /\ UNCHANGED <<ctx, symbol, resolved, node, evaluated, input, tokens, lexErr,
                   position, parsed, globals, unit, target, options, power,
                   goroutines, returned>>

\* the call returns: its arguments and results go away with its frame
Return ==
    /\ op \notin {"none", "pow", "pow returns", "stack overflow"}
    /\ op' = "none"
    /\ symbol' = <<>> /\ resolved' = Err
    /\ node' = NilNode /\ evaluated' = EvalErr(<<>>)
    /\ input' = <<>> /\ tokens' = <<>> /\ lexErr' = FALSE /\ position' = 0
    /\ parsed' = ParseErr(Tokenizer(<<>>, <<>>, 0))
    /\ unit' = ZeroUnit /\ target' = ZeroUnit
    /\ options' = DefaultFormatOptions /\ result' = NoResult
    /\ number' = Special("zero") /\ power' = 0 /\ returned' = EOFToken
    /\ UNCHANGED <<ctx, globals, stack, goroutines>>

InitResolve == ctx \in Contexts /\ Idle
NextResolve == (op = "none" /\ \E sym \in Symbols : ResolveCall(sym)) \/ Return
SpecResolve == InitResolve /\ [][NextResolve]_vars

InitEval == ctx = FirstContext /\ Idle
NextEval == (op = "none" /\ \E n \in EvalNodes : EvalCall(n)) \/ Return
SpecEval == InitEval /\ [][NextEval]_vars

InitLex == ctx = FirstContext /\ Idle
NextLex == (op = "none" /\ \E in \in Inputs : TokenizeCall(in)) \/ Return
SpecLex == InitLex /\ [][NextLex]_vars

InitParse == ctx = FirstContext /\ Idle
NextParse == (op = "none" /\ \E in \in Inputs : ParseComplexUnitCall(in)) \/ Return
SpecParse == InitParse /\ [][NextParse]_vars

\* the package as its init function leaves it
InitAPI == ctx = FirstContext /\ Idle

NextAPI ==
    \/ (op = "none" /\ \E c \in Contexts, in \in ParseInputs : ParseCall(c, in))
    \/ (op = "none" /\ \E c \in Contexts, in \in ParseInputs : MustParseCall(c, in))
    \/ (op = "none" /\ \E c \in Contexts, in \in ParseExamples : ParseUnitCall(c, in))
    \/ Return
SpecAPI == InitAPI /\ [][NextAPI]_vars

\* the package with calls of RegisterConversionFunctions among the others
NextRegister ==
    \/ (\E to \in ToSIUnitFuncs, from \in FromSIUnitFuncs :
            RegisterConversionFunctionsCall(to, from))
    \/ (op = "none" /\ \E c \in Contexts, in \in ParseExamples : ParseCall(c, in))
    \/ (op = "none" /\ \E c \in Contexts, in \in ParseExamples : ParseUnitCall(c, in))
    \/ Return
SpecRegister == InitAPI /\ [][NextRegister]_vars

NextConvert == (op = "none" /\ \E u \in Units, t \in Units : ConvertToCall(u, t)) \/ Return
SpecConvert == InitAPI /\ [][NextConvert]_vars

NextFormat ==
    \/ (op = "none" /\ \E dim \in FormatDimensions, opts \in FormatOptionsSet :
            FormatDimensionCall(dim, opts))
    \/ (op = "none" /\ \E in \in FormatExamples, opts \in FormatOptionsSet :
            ParseThenFormatCall(in, opts))
    \/ Return
SpecFormat == InitAPI /\ [][NextFormat]_vars

NextJSON ==
    (op = "none" /\ \E c \in Contexts, u \in Units : JSONRoundTripCall(c, u)) \/ Return
SpecJSON == InitAPI /\ [][NextJSON]_vars

\* goroutines that share one context, each calling Resolve in its own time
NextConcurrent ==
    \/ (\E g \in Goroutines, sym \in ConcurrentSymbols : ResolveBegin(g, sym))
    \/ (\E g \in Goroutines : ResolveAdvance(g))
    \/ (\E g \in Goroutines : ResolveEnd(g))
SpecConcurrent == InitAPI /\ [][NextConcurrent]_vars

\* calls of New, with calls of RegisterConversionFunctions among them
NextNew ==
    \/ (\E to \in ToSIUnitFuncs, from \in FromSIUnitFuncs :
            RegisterConversionFunctionsCall(to, from))
    \/ (op = "none" /\ \E c \in Contexts, v \in NewValues, sym \in NewSymbols :
            NewCall(c, v, sym))
    \/ Return
SpecNew == InitAPI /\ [][NextNew]_vars

NextFormatParse ==
    (op = "none" /\ \E dim \in FormatDimensions \cup WideDimensions :
        FormatThenParseCall(dim, ExpandedOptions)) \/ Return
SpecFormatParse == InitAPI /\ [][NextFormatParse]_vars

\* a tokenizer and any sequence of Peek and Next on it
NextTokenizer ==
    \/ (op = "none" /\ \E in \in Inputs : NewTokenizerCall(in))
    \/ PeekCall
    \/ NextCall
    \/ Return
SpecTokenizer == InitLex /\ [][NextTokenizer]_vars

\* calls of Unit.Pow with every int as the exponent
NextPow ==
    \/ (op = "none" /\ \E u \in PowUnits, e \in MinInt..MaxInt : PowCall(u, e))
    \/ PowDescend
    \/ PowUnwind
    \/ Return
SpecPow == InitAPI /\ [][NextPow]_vars

----
(* Claims about the evaluator. *)

\* C1: when both operands evaluate, Binary(Multiply, A, B) has the
\* element-wise sum of the operands' dimensions, Binary(Divide, A, B) their
\* element-wise difference, and Power(A, n) has n times A's dimension.
C1_DimensionAlgebra ==
    op = "Eval" =>
        /\ (node.kind = "Binary" /\ node.Op \in {"Multiply", "Divide"}
            /\ EvalAST(node.Left, ctx).ok /\ EvalAST(node.Right, ctx).ok) =>
               LET d1 == EvalAST(node.Left, ctx).unit.Dimension
                   d2 == EvalAST(node.Right, ctx).unit.Dimension
                   sign == IF node.Op = "Multiply" THEN 1 ELSE -1
               IN  /\ evaluated.ok
                   /\ \A i \in 1..NDims :
                        evaluated.unit.Dimension[i] = d1[i] + sign * d2[i]
        /\ (node.kind = "Power" /\ EvalAST(node.Base, ctx).ok) =>
               LET d1 == EvalAST(node.Base, ctx).unit.Dimension
               IN  /\ evaluated.ok
                   /\ \A i \in 1..NDims :
                        evaluated.unit.Dimension[i] = node.Exp * d1[i]

\* a product of a compound operand with an operand of non-zero dimension
C1_Witness ==
    /\ op = "Eval" /\ node.kind = "Binary" /\ node.Op = "Multiply"
    /\ node.Left.kind = "Binary" /\ node.Right.kind = "Power"
    /\ evaluated.ok
    /\ evaluated.unit.Dimension = Dim(1, 0, 2, 0, 0, 0, 0)

----
(* Claims about the parser. *)

IsIntegerLiteral(tok) == tok.Kind = "Number" /\ AtoiOk(tok.Value)

\* the terminal a token is for the grammar
Terminal(tok) == IF IsIntegerLiteral(tok) THEN "Integer" ELSE tok.Kind

\* the terminals the parser is given: the tokens of the Tokenizer, then the
\* end-of-input token it makes up when the list does not end with one
Seen(toks) ==
    LET terms == [i \in DOMAIN toks |-> Terminal(toks[i])]
    IN  IF toks # <<>> /\ toks[Len(toks)].Kind = "EOF" THEN terms
        ELSE Append(terms, "EOF")

\* derivability from the grammar, by splitting the sequence
RECURSIVE IsTerm(_)
IsFactor(w) ==
    \/ Len(w) = 1 /\ w[1] \in {"Identifier", "Number", "Integer"}
    \/ Len(w) >= 3 /\ w[1] = "LParen" /\ w[Len(w)] = "RParen"
       /\ IsTerm(SubSeq(w, 2, Len(w) - 1))

IsPower(w) ==
    \/ IsFactor(w)
    \/ Len(w) >= 3 /\ w[Len(w)] = "Integer" /\ w[Len(w) - 1] = "Power"
       /\ IsFactor(SubSeq(w, 1, Len(w) - 2))

IsTerm(w) ==
    \/ IsPower(w)
    \/ \E i \in 2..(Len(w) - 1) :
          /\ w[i] \in {"Multiply", "Divide"}
          /\ IsPower(SubSeq(w, i + 1, Len(w)))
          /\ IsTerm(SubSeq(w, 1, i - 1))

IsSentence(w) ==
    Len(w) >= 2 /\ w[Len(w)] = "EOF" /\ IsTerm(SubSeq(w, 1, Len(w) - 1))

RejectedExamples ==
    {<<"m", "/">>, <<"m", "/", "s", "/">>, <<"*", "m">>,
     <<"k", "g", "*", "/", "s">>, <<"k", "g", "^", "x">>,
     <<"m", "^", "2", "^", "3">>, <<"(", "k", "g">>, <<"k", "g", ")">>,
     <<"m", "^", "2", ".", "5">>, <<"m", " ", "2">>}

NestedPowerExample ==
    <<"(", "(", "k", "g", "*", "m", ")", "/", "s", ")", "^", "2">>

\* C2: the parser returns an AST exactly for the token sequences the
\* grammar derives, followed by end of input; every other sequence gives
\* an error and no AST, the listed malformed expressions among them.
C2_ParserAcceptsGrammar ==
    op = "ParseComplexUnit" =>
        /\ parsed.ok <=> IsSentence(Seen(tokens))
        /\ ~parsed.ok => node.kind = "nil"
        /\ parsed.ok => node.kind # "nil"
        /\ input \in RejectedExamples => ~parsed.ok
        /\ input = NestedPowerExample => parsed.ok

\* a power of a parenthesised term is accepted
C2_Witness ==
    /\ op = "ParseComplexUnit" /\ input = NestedPowerExample
    /\ parsed.ok /\ node.kind = "Power" /\ node.Base.kind = "Group"

\* the tree is a left fold: no right operand is a bare product or quotient,
\* and a power has a factor as its base
RECURSIVE IsLeftFold(_)
IsLeftFold(n) ==
    CASE n.kind = "Binary" ->
            n.Right.kind # "Binary" /\ IsLeftFold(n.Left) /\ IsLeftFold(n.Right)
      [] n.kind = "Power" ->
            n.Base.kind \in {"Ident", "Number", "Group"} /\ IsLeftFold(n.Base)
      [] n.kind = "Group" -> IsLeftFold(n.Inner)
      [] OTHER -> TRUE

IsFlat(toks) == \A i \in DOMAIN toks : toks[i].Kind \notin {"LParen", "RParen"}

\* the dimension of p1 op1 p2 ... pn read off the tokens: every factor
\* counts with its own exponent and with the sign of the operator before it
RECURSIVE FlatDim(_, _, _, _, _)
FlatDim(c, toks, i, sign, acc) ==
    IF i > Len(toks) THEN acc
    ELSE LET tok == toks[i] IN
         CASE tok.Kind \in {"Identifier", "Number"} ->
                LET d == IF tok.Kind = "Identifier"
                         THEN Resolve(c, tok.Value).unit.Dimension
                         ELSE Dimensionless
                    powered == i + 2 <= Len(toks) /\ toks[i + 1].Kind = "Power"
                    k == IF powered THEN Atoi(toks[i + 2].Value) ELSE 1
                IN  FlatDim(c, toks, IF powered THEN i + 3 ELSE i + 1, sign,
                            [j \in 1..NDims |-> acc[j] + sign * k * d[j]])
           [] tok.Kind = "Multiply" -> FlatDim(c, toks, i + 1, 1, acc)
           [] tok.Kind = "Divide" -> FlatDim(c, toks, i + 1, -1, acc)
           [] OTHER -> FlatDim(c, toks, i + 1, sign, acc)

\* C3: an accepted sequence p1 op1 p2 ... pn parses to the left fold, each
\* '^k' binding the factor just before it, so that "a/b/c" has dimension
\* dim(a)-dim(b)-dim(c), "a/b*c" has dim(a)-dim(b)+dim(c) and "kg*m/s^2"
\* has mass 1, length 1, time -2.
C3_LeftFold ==
    (op = "ParseComplexUnit" /\ parsed.ok) =>
        /\ IsLeftFold(node)
        /\ (evaluated.ok /\ IsFlat(tokens)) =>
              evaluated.unit.Dimension = FlatDim(ctx, tokens, 1, 1, Dimensionless)
        /\ input = <<"k", "g", "*", "m", "/", "s", "^", "2">> =>
              evaluated.ok /\ evaluated.unit.Dimension = Dim(1, 1, -2, 0, 0, 0, 0)
        /\ input = <<"m", "/", "s", "/", "K">> =>
              evaluated.ok /\ evaluated.unit.Dimension = Dim(1, 0, -1, 0, -1, 0, 0)
        /\ input = <<"m", "/", "s", "*", "K">> =>
              evaluated.ok /\ evaluated.unit.Dimension = Dim(1, 0, -1, 0, 1, 0, 0)

\* "a/b/c" has been parsed and evaluated
C3_Witness ==
    /\ op = "ParseComplexUnit" /\ input = <<"m", "/", "s", "/", "K">>
    /\ node.kind = "Binary" /\ node.Left.kind = "Binary" /\ node.Right.kind = "Ident"
    /\ evaluated.ok /\ evaluated.unit.Dimension = Dim(1, 0, -1, 0, -1, 0, 0)

----
(* Claims about Resolve. *)

Registered(c) == DOMAIN c.baseUnits \cup DOMAIN c.derivedUnits

RegisteredUnit(c, sym) ==
    IF sym \in DOMAIN c.baseUnits THEN c.baseUnits[sym] ELSE c.derivedUnits[sym]

\* the registered non-empty prefixes that split the symbol as prefix + unit
Splits(c, sym) ==
    {p \in DOMAIN c.prefixes :
        p # <<>> /\ HasPrefix(sym, p) /\ After(sym, p) \in Registered(c)}

Longest(ps) == CHOOSE p \in ps : \A q \in ps : ByteLen(q) <= ByteLen(p)

\* C4: a symbol with no exact match that registered non-empty prefixes split
\* as prefix + unit resolves to the longest such prefix applied to the unit
\* after it; "dam" is 10 times the meter.
C4_LongestPrefix ==
    op = "Resolve" =>
        /\ (symbol \notin Registered(ctx) /\ Splits(ctx, symbol) # {}) =>
              LET p == Longest(Splits(ctx, symbol))
                  u == RegisteredUnit(ctx, After(symbol, p))
              IN  /\ resolved.ok
                  /\ resolved.unit = Unit(FMul(u.Value, ctx.prefixes[p]), u.Dimension)
        /\ symbol = <<"d", "a", "m">> =>
              resolved.ok /\ resolved.unit = Unit(Ten(1), Dim(1, 0, 0, 0, 0, 0, 0))

\* a symbol that two prefixes split has been resolved
C4_Witness ==
    /\ op = "Resolve" /\ symbol \notin Registered(ctx)
    /\ Cardinality(Splits(ctx, symbol)) > 1
    /\ resolved.ok
    /\ resolved.unit.Value = ctx.prefixes[Longest(Splits(ctx, symbol))]

\* C5: a symbol that is exactly a registered base or derived unit resolves
\* to that unit as registered, never to a prefix in front of another unit:
\* "m" is the meter, "cd" the candela, "min" the minute, "Pa" the pascal.
C5_ExactMatchFirst ==
    op = "Resolve" =>
        /\ symbol \in Registered(ctx) =>
              resolved.ok /\ resolved.unit = RegisteredUnit(ctx, symbol)
        /\ symbol = <<"m">> =>
              resolved.unit = Unit(Whole(1), Dim(1, 0, 0, 0, 0, 0, 0))
        /\ symbol = <<"c", "d">> =>
              resolved.unit = Unit(Whole(1), Dim(0, 0, 0, 0, 0, 0, 1))
        /\ symbol = <<"m", "i", "n">> =>
              resolved.unit = Unit(Whole(60), Dim(0, 0, 1, 0, 0, 0, 0))
        /\ symbol = <<"P", "a">> =>
              resolved.unit = Unit(Whole(1), Dim(-1, 1, -2, 0, 0, 0, 0))

\* "cd", which also reads as centi + day, has been resolved
C5_Witness ==
    /\ op = "Resolve" /\ symbol = <<"c", "d">>
    /\ <<"c">> \in Splits(ctx, symbol)
    /\ resolved.ok /\ resolved.unit.Dimension = Dim(0, 0, 0, 0, 0, 0, 1)

BinaryPrefixes ==
    {<<"K", "i">>, <<"M", "i">>, <<"G", "i">>, <<"T", "i">>, <<"P", "i">>,
     <<"E", "i">>}

\* the symbols the context registers for the byte
ByteUnits == {<<"B">>, <<"i", "B">>}

\* C6: a symbol that begins with a binary prefix resolves only when the
\* rest of it is the byte unit, and then to a dimensionless scale.
C6_BinaryPrefixOnlyBytes ==
    (op = "Resolve" /\ resolved.ok) =>
        \A b \in BinaryPrefixes :
            HasPrefix(symbol, b) =>
                /\ After(symbol, b) \in ByteUnits
                /\ resolved.unit.Dimension = Dimensionless

\* the binary byte multiples KiB ... EiB
ByteMultiples == {b \o <<"B">> : b \in BinaryPrefixes}

Prefixed(c) ==
    {p \o u : p \in DOMAIN c.prefixes \ {<<>>}, u \in Registered(c)}

\* what the tokenizer makes an Identifier token of
IsIdentifier(sym) ==
    /\ sym # <<>>
    /\ IsLetter(sym[1]) \/ isSpecialIdentifierStart(sym[1])
    /\ \A i \in DOMAIN sym : isIdentifierChar(sym[i])

\* C7 as claimed: for identifiers, Resolve returns a unit only for a registered base or
\* derived unit, a binary byte multiple, or a registered non-empty prefix in
\* front of a registered unit.
C7_OnlyRegisteredForms ==
    (op = "Resolve" /\ IsIdentifier(symbol) /\ resolved.ok) =>
        symbol \in Registered(ctx) \cup ByteMultiples \cup Prefixed(ctx)

SpecialCased == {<<"1">>, <<>>, <<"g">>}

\* C7 as amended: Resolve returns a unit only for a registered base or
\* derived unit, one of the special-cased symbols "g", "1" and "", a binary
\* byte multiple, or a registered non-empty prefix in front of a registered
\* unit; for every other symbol ("xyzzy") it returns an error and the zero
\* Unit.
C7_OnlyRegisteredOrSpecial ==
    op = "Resolve" =>
        /\ resolved.ok =>
              symbol \in Registered(ctx) \cup SpecialCased \cup ByteMultiples
                         \cup Prefixed(ctx)
        /\ ~resolved.ok => resolved.unit = ZeroUnit
        /\ symbol = <<"x", "y", "z", "z", "y">> => ~resolved.ok

\* a symbol that ends with a unit but begins with no prefix has been refused
C7_Witness ==
    /\ op = "Resolve" /\ symbol = <<"x", "m">>
    /\ ~resolved.ok /\ resolved.unit = ZeroUnit

----
(* Claims about the tokenizer. *)

RECURSIVE Concat(_)
Concat(ss) == IF ss = <<>> THEN <<>> ELSE Head(ss) \o Concat(Tail(ss))

Kinds(toks) == [i \in DOMAIN toks |-> toks[i].Kind]

\* C8: tokenization fails, or returns tokens that cover the non-whitespace
\* runes of the input in order, none of kind Invalid, with the end-of-input
\* token last and nowhere else.
C8_TokensCoverInput ==
    (op = "tokenize" /\ ~lexErr) =>
        /\ Concat([i \in DOMAIN tokens |-> tokens[i].Value])
              = SelectSeq(input, LAMBDA r : ~isSpace(r))
        /\ \A i \in DOMAIN tokens : tokens[i].Kind # "Invalid"
        /\ tokens # <<>>
        /\ \A i \in DOMAIN tokens : tokens[i].Kind = "EOF" <=> i = Len(tokens)
        /\ \A i \in 1..(Len(tokens) - 1) : tokens[i].Offset < tokens[i + 1].Offset

\* an input with whitespace and several tokens has been tokenized
C8_Witness ==
    /\ op = "tokenize" /\ ~lexErr
    /\ \E i \in DOMAIN input : isSpace(input[i])
    /\ Len(tokens) >= 3

\* C9: an input with an unrecognized character or a malformed number does
\* not parse: no tree comes out of the tokens before the offending rune.
C9_LexErrorAbortsParse ==
    (op = "ParseComplexUnit" /\ tokenizeFully(input).err) =>
        ~parsed.ok /\ ~evaluated.ok

\* every middle dot replaced by '*'
Starred(in) == [i \in DOMAIN in |-> IF in[i] = "middot" THEN "*" ELSE in[i]]

\* C10: replacing every middle dot of the input by '*' gives the same
\* token kinds, the same parse outcome and the same scalar and dimension.
C10_MiddotIsStar ==
    op = "ParseComplexUnit" =>
        /\ Kinds(tokens) = Kinds(tokenizeFully(Starred(input)).tokens)
        /\ parsed.ok = ParseUnitAST(Starred(input)).ok
        /\ evaluated.ok = ParseComplexUnit(Starred(input), ctx).ok
        /\ evaluated.unit = ParseComplexUnit(Starred(input), ctx).unit

\* a product written with the middle dot has been parsed and evaluated
C10_Witness ==
    /\ op = "ParseComplexUnit"
    /\ input = <<"k", "g", "middot", "m", "/", "s", "^", "2">>
    /\ Kinds(tokens) = <<"Identifier", "Multiply", "Identifier", "Divide",
                         "Identifier", "Power", "Number", "EOF">>
    /\ evaluated.ok /\ evaluated.unit = Unit(Whole(1), Dim(1, 1, -2, 0, 0, 0, 0))

----
(* Claims about Parse, ParseUnit and MustParse. *)

\* the magnitude Parse reads: its first field as a number
Magnitude(in) == strconvParseFloat(Head(Fields(in)))

\* the unit expression Parse reads: the fields after the first, put together
UnitExpression(in) == Join(Tail(Fields(in)))

\* C11: Parse splits its input into fields. One field that is a number v
\* gives the dimensionless scalar v; a number v followed by a unit
\* expression that evaluates to (s, d) gives (v * s, d); no field, a first
\* field that is no number, or a unit expression that fails gives an error
\* and the unit One, which owes nothing to the input.
C11_ParseSplitsMagnitudeAndUnit ==
    op = "Parse" =>
        LET n == Len(Fields(input))
        IN  /\ ~result.panic
            /\ n = 0 => ~result.ok /\ result.unit = One
            /\ n >= 1 /\ ~Magnitude(input).ok => ~result.ok /\ result.unit = One
            /\ n = 1 /\ Magnitude(input).ok =>
                   result.ok /\ result.unit = Scalar(Magnitude(input).value)
            /\ n >= 2 /\ Magnitude(input).ok =>
                   LET e == ParseComplexUnit(UnitExpression(input), ctx)
                   IN  IF e.ok
                       THEN /\ result.ok
                            /\ result.unit.Dimension = e.unit.Dimension
                            /\ result.unit.Value = FMul(e.unit.Value, Magnitude(input).value)
                       ELSE ~result.ok /\ result.unit = One

\* Parse("100 km/h") has returned 100000/3600 m/s
C11_Witness ==
    /\ op = "Parse"
    /\ input = <<"1", "0", "0", " ", "k", "m", "/", "h">>
    /\ result.ok
    /\ result.unit = Unit(Fin(250, 9, 0, 0), Dim(1, 0, -1, 0, 0, 0, 0))

\* C12: Parse takes the symbols of SymbolicUnits as its unit part as
\* ParseUnit does: a number v in front of such a symbol gives v times the
\* registered unit, so Parse("14.7 psi") is 14.7 * 6894.76 with the
\* dimension of the pascal.
C12_ParseAcceptsSymbolicUnits ==
    (/\ op = "Parse"
     /\ Len(Fields(input)) = 2
     /\ Magnitude(input).ok
     /\ UnitExpression(input) \in DOMAIN SymbolicUnits)
    => /\ result.ok
       /\ result.unit.Dimension = SymbolicUnits[UnitExpression(input)].Dimension
       /\ result.unit.Value = FMul(SymbolicUnits[UnitExpression(input)].Value,
                                   Magnitude(input).value)

\* C13: Parse("25 deg C") succeeds and is the temperature 298.15 K.
C13_ParseAcceptsDegreeCelsius ==
    (op = "Parse" /\ input = <<"2", "5", " ", "deg", "C">>)
    => /\ result.ok
       /\ result.unit = Unit(Fin(29815, 1, -2, -2), Temperature)

\* C14: MustParse panics exactly when Parse returns an error for the same
\* input, and hands back the unit of Parse when Parse succeeds.
C14_MustParsePanicsIffParseFails ==
    op = "MustParse" =>
        \A c \in Contexts :
            LET p == Parse(input, c, toSIUnit)
            IN  /\ result.panic <=> ~p.ok
                /\ p.ok => result.ok /\ result.unit = p.unit

\* MustParse("bad m") has panicked
C14_Witness ==
    /\ op = "MustParse"
    /\ input = <<"b", "a", "d", " ", "m">>
    /\ result.panic

\* C15: whatever calls of the package came before, calls of
\* RegisterConversionFunctions with nil among them, ParseUnit and Parse
\* return a unit or an error and do not panic.
C15_ParseNeverPanics == op \in {"Parse", "ParseUnit"} => ~result.panic

----
(* Claims about ConvertTo. *)

----
(* Claims about the formatter. *)

\* how many base dimensions have an exponent of the given sign in dim
SignCount(dim, sign) == Cardinality({i \in 1..NDims : sign * dim[i] > 0})

Occurrences(s, r) == Cardinality({i \in DOMAIN s : s[i] = r})

IsWrapped(s) == Len(s) >= 2 /\ Head(s) = "(" /\ s[Len(s)] = ")"

\* the part of s before its first "/" and the part after it
Slash(s) == CHOOSE i \in DOMAIN s : s[i] = "/" /\ \A j \in 1..(i - 1) : s[j] # "/"
BeforeSlash(s) == SubSeq(s, 1, Slash(s) - 1)
AfterSlash(s) == SubSeq(s, Slash(s) + 1, Len(s))

\* a call that formats a dimension in the expanded form, with parentheses
ExpandedWithParens ==
    /\ op = "FormatUnitWithOptions"
    /\ ~options.CollapseSymbols
    /\ options.UseParens

PlainSymbols == options.MultSymbol = <<"*">> /\ options.ExponentFmt = <<"^", "%d">>

NumeratorOrder == <<2, 1, 3, 4, 5, 6, 7>>
DenominatorOrder == <<3, 4, 5, 6, 7, 1, 2>>

\* a base symbol with the absolute value of its exponent, left out when 1
FactorText(i, e) ==
    BaseSymbols[i] \o (IF e = 1 THEN <<>> ELSE SprintfInt(options.ExponentFmt, e))

\* the factors of the given sign in the given order, the multiplication
\* symbol between them
RECURSIVE ProductText(_, _, _)
ProductText(dim, order, sign) ==
    IF order = <<>> THEN <<>>
    ELSE LET rest == ProductText(dim, Tail(order), sign)
             i == Head(order)
         IN  IF sign * dim[i] <= 0 THEN rest
             ELSE IF rest = <<>> THEN FactorText(i, sign * dim[i])
             ELSE FactorText(i, sign * dim[i]) \o options.MultSymbol \o rest

WithoutParens(s) == SelectSeq(s, LAMBDA r : r \notin {"(", ")"})

C19_KnownDimensionCollapses ==
    (/\ op = "ParseThenFormat"
     /\ evaluated.ok
     /\ options.CollapseSymbols
     /\ unit.Dimension \in DOMAIN defaultKnownSymbols)
    => result.text = defaultKnownSymbols[unit.Dimension]

\* "kg*m/s^2" has been parsed and formatted as "N"
C19_Witness ==
    /\ op = "ParseThenFormat"
    /\ input = <<"k", "g", "*", "m", "/", "s", "^", "2">>
    /\ options.CollapseSymbols
    /\ result.text = <<"N">>

----
(* Claims about the JSON form. *)

\* C20: UnmarshalJSON of the output of MarshalJSON succeeds and gives back
\* a unit of the same dimension and an equal value, for every unit whose
\* value is a number; 1 m/s is among them.
C20_JSONRoundTrip ==
    (op = "JSON" /\ Printable(unit.Value) /\ unit.Value.k # "nan")
    => /\ result.ok
       /\ result.unit.Dimension = unit.Dimension
       /\ result.unit.Value = unit.Value

----
(* Claims about the context under concurrent use. *)

\* C21: no step of any Resolve call, whatever the other goroutines are
\* doing, changes the context (base units, derived units, prefixes, sorted
\* prefixes), and a call that finishes has the result Resolve gives when
\* it runs alone on that context.
C21_ResolveLeavesContextAlone ==
    [][/\ ctx' = ctx
       /\ \A g \in Goroutines :
              goroutines'[g].pc = "done" =>
                  goroutines'[g].result = Resolve(ctx, goroutines'[g].symbol)]_vars

\* one goroutine has resolved "dam" through the prefix scan while another is
\* in the middle of its own scan
C21_Witness ==
    \E g \in Goroutines, h \in Goroutines :
        /\ g # h
        /\ goroutines[g].pc = "done" /\ goroutines[g].symbol = <<"d", "a", "m">>
        /\ goroutines[g].result = Ok(Unit(Ten(1), Length))
        /\ goroutines[h].pc = "prefixes" /\ goroutines[h].i > 1
        /\ ctx = FirstContext

----
(* Claims about New. *)

\* C22: New(value, symbol) is value times the unit the symbol names: the
\* scale the symbol resolves to multiplied by value, with the symbol's
\* dimension; New(100, "cm") is 1 m and New(500, "g") is 0.5 kg.
C22_NewScalesBySymbol ==
    (/\ op = "New"
     /\ toSIUnit = "init"
     /\ Resolve(ctx, symbol).ok)
    => /\ result.ok
       /\ result.unit = Unit(FMul(number, Resolve(ctx, symbol).unit.Value),
                             Resolve(ctx, symbol).unit.Dimension)

\* C27: New never fails on a symbol ParseUnit refuses: unless the symbol is
\* "g", it returns Scalar(value), the given value with the all-zero
\* dimension.
C27_NewFallsBackToScalar ==
    (/\ op = "New"
     /\ symbol # <<"g">>
     /\ ~ParseUnit(symbol, ctx, toSIUnit).ok
     /\ ~ParseUnit(symbol, ctx, toSIUnit).panic)
    => /\ result.ok /\ ~result.panic
       /\ result.unit.Value = number
       /\ result.unit.Dimension = Dimensionless

\* New(5, "xyzzy") came back as the scalar 5
C27_Witness ==
    /\ op = "New"
    /\ symbol = <<"x", "y", "z", "z", "y">>
    /\ number = Whole(5)
    /\ result = Returned(Scalar(Whole(5)))

----
(* Claims about the order of evaluation. *)

\* the symbol the evaluation failed on: the last one handed to Resolve
FailedOn(e) == e.calls[Len(e.calls)]

\* C23: Binary(op, L, R) reports the first error from left to right: when L
\* fails the result is L's error and no symbol of R is resolved; R's error
\* comes back only when L succeeded; an error comes with the zero Unit, no
\* scalar and no dimension.
C23_FirstErrorLeftToRight ==
    (op = "Eval" /\ node.kind = "Binary") =>
        LET left == Eval(ctx, node.Left)
            right == Eval(ctx, node.Right)
        IN  /\ ~left.ok =>
                  /\ ~evaluated.ok
                  /\ evaluated.calls = left.calls
                  /\ FailedOn(evaluated) = FailedOn(left)
            /\ (left.ok /\ ~right.ok) =>
                  /\ ~evaluated.ok
                  /\ evaluated.calls = left.calls \o right.calls
                  /\ FailedOn(evaluated) = FailedOn(right)
            /\ ~evaluated.ok => evaluated.unit = ZeroUnit
            /\ (left.ok /\ right.ok /\ node.Op \in {"Multiply", "Divide"}) => evaluated.ok

\* x * (m / h): the left side failed on "x" and neither "m" nor "h" was
\* resolved
C23_Witness ==
    /\ op = "Eval"
    /\ node = BinaryNode("Multiply", IdentNode(<<"x">>),
                         BinaryNode("Divide", IdentNode(<<"m">>), IdentNode(<<"h">>)))
    /\ evaluated = EvalErr(<<<<"x">>>>)

----
(* Claims about formatting as the inverse of parsing. *)

\* C24: for every dimension d, the text of the unit (1, d) formatted with
\* the default symbols and parentheses and no collapsing is accepted by the
\* parser and evaluates to the scalar 1 and the dimension d, the
\* dimensionless one and those with only negative exponents included.
C24_FormatThenParseIsIdentity ==
    op = "FormatThenParse" =>
        /\ evaluated.ok
        /\ evaluated.unit = Unit(Whole(1), unit.Dimension)

\* a quotient of products with exponents came out of the formatter and went
\* back in
C24_Witness ==
    /\ op = "FormatThenParse"
    /\ unit.Dimension = Dim(2, 2, -2, -2, 0, 0, 0)
    /\ evaluated.ok
    /\ evaluated.unit.Dimension = Dim(2, 2, -2, -2, 0, 0, 0)
    /\ Occurrences(input, "/") = 1

----
(* Claims about the cursor of the tokenizer. *)

\* what every call of Peek and Next does, Next's step aside: Peek leaves the
\* cursor, Next returns what a Peek just before it returned, the cursor
\* never decreases and stays within 0 .. len(tokens), and at the end both
\* return an end-of-input token
CursorRules ==
    /\ op' = "Peek" => position' = position
    /\ (op = "Peek" /\ op' = "Next") => returned' = returned
    /\ op' \in {"Peek", "Next"} => position' >= position
    /\ 0 <= position' /\ position' <= Len(tokens')
    /\ (op' \in {"Peek", "Next"} /\ position = Len(tokens)) => returned'.Kind = "EOF"

\* C25 as stated: on any sequence of Peek and Next, Peek never changes the
\* cursor; Next returns the token an immediately preceding Peek returned and
\* advances the cursor by exactly one; the cursor never decreases and stays
\* between 0 and the number of tokens; at the end every Peek and Next
\* returns an end-of-input token.
C25_NextAlwaysAdvances ==
    [][CursorRules /\ (op' = "Next" => position' = position + 1)]_vars

\* C25 as amended: as stated, but Next advances the cursor by exactly one
\* only while a token is left, and leaves it where it is at the end.
C25_NextAdvancesUntilEnd ==
    [][/\ CursorRules
       /\ (op' = "Next" /\ position < Len(tokens)) => position' = position + 1
       /\ (op' = "Next" /\ position = Len(tokens)) => position' = position]_vars

\* Next has just returned the identifier m of "m/2", which the Peek before
\* it had returned, and the cursor is past it
C25_Witness ==
    /\ op = "Next"
    /\ input = <<"m", "/", "2">>
    /\ position = 1
    /\ returned.Kind = "Identifier" /\ returned.Value = <<"m">>

----
(* Claims about the positions of tokens. *)

\* the bytes of a string: each rune gives as many bytes as it is wide
RECURSIVE Bytes(_)
Bytes(s) ==
    IF s = <<>> THEN <<>>
    ELSE [b \in 1..Width(Head(s)) |-> <<Head(s), b>>] \o Bytes(Tail(s))

\* in[off : off+len(lexeme)] == lexeme
OccursAt(in, off, lexeme) ==
    /\ off + Len(Bytes(lexeme)) <= Len(Bytes(in))
    /\ SubSeq(Bytes(in), off + 1, off + Len(Bytes(lexeme))) = Bytes(lexeme)

\* C26: every token carries the byte offset at which its lexeme occurs in
\* the text the caller passed in, also when operators and parentheses have
\* no spaces around them.
C26_OffsetsPointIntoInput ==
    op = "tokenize" =>
        \A i \in DOMAIN tokens :
            tokens[i].Kind # "EOF" => OccursAt(input, tokens[i].Offset, tokens[i].Value)

----
(* Claims about Pow. *)

\* C28: Unit.Pow(n) terminates for every int n, the negative ones and the
\* most negative one included: the recursion of pow reaches n = 0. A call
\* chain in which an argument comes back never ends, pow being a function
\* of n alone in what it calls; the runtime ends it with a stack overflow.
C28_PowTerminates ==
    /\ op # "stack overflow"
    /\ \A i \in DOMAIN stack, j \in DOMAIN stack : i # j => stack[i] # stack[j]

----
(* Claims about the order of the prefix list. *)

\* C29: Resolve gives the same outcome in every context instance: the
\* prefixes of equal byte length may stand in any order the map iteration
\* and the sort leave them in, and for every symbol every such order yields
\* the same scale and dimension, or the same failure.
C29_ResolveSameInEveryContext ==
    op = "Resolve" =>
        \A c \in Contexts :
            /\ Resolve(c, symbol).ok = resolved.ok
            /\ Resolve(c, symbol).unit = resolved.unit

\* "dam" resolved to 10 m through the prefix scan of a context whose prefix
\* list has the two-byte prefixes in another order than the first context
C29_Witness ==
    /\ op = "Resolve"
    /\ symbol = <<"d", "a", "m">>
    /\ resolved = Ok(Unit(Ten(1), Length))
    /\ ctx.sortedPrefixes[1] # FirstContext.sortedPrefixes[1]
    /\ ByteLen(ctx.sortedPrefixes[1]) = ByteLen(FirstContext.sortedPrefixes[1])

----
(* Claims about the gram. *)

\* the registered prefixes a gram could carry: all but the empty one and "k"
GramPrefixes(c) == DOMAIN c.prefixes \ {<<>>, <<"k">>}

\* C30: the gram resolves only as the exact symbol "g", with scale 0.001
\* and the dimension of mass: for every registered non-empty prefix p other
\* than "k", Resolve(p + "g") is the unrecognized-unit error, and "kg"
\* resolves as the base unit with scale 1.
C30_GramOnlyUnprefixed ==
    op = "Resolve" =>
        /\ symbol = <<"g">> => resolved = Ok(Unit(Ten(-3), Dim(0, 1, 0, 0, 0, 0, 0)))
        /\ symbol = <<"k", "g">> =>
               /\ resolved = Ok(Unit(Whole(1), Dim(0, 1, 0, 0, 0, 0, 0)))
               /\ resolved.unit = ctx.baseUnits[<<"k", "g">>]
        /\ (\E p \in GramPrefixes(ctx) : symbol = p \o <<"g">>) => resolved = Err
        /\ <<"g">> \notin DOMAIN ctx.baseUnits \cup DOMAIN ctx.derivedUnits

\* Resolve("mg") failed
C30_Witness ==
    /\ op = "Resolve"
    /\ symbol = <<"m", "g">>
    /\ resolved = Err
    /\ <<"m">> \in GramPrefixes(ctx)

====
